---- MODULE Spec2Model ----
(***************************************************************************)
(* A model of the parsing engine of BetterMD:                              *)
(*   - HTMLParser (src/BetterMD/parse/html.py), the character-level state  *)
(*     machine, one action per parser state, one step per loop iteration;  *)
(*   - MDParser (src/BetterMD/parse/markdown.py), the line-oriented block  *)
(*     parser, one action per branch of the main loop.                     *)
(* Strings are sequences of one-character strings.  Python objects that    *)
(* are shared by reference (the element dicts held by dom, tag_stack and   *)
(* current_tag) live in the heap `nodes` and are referred to by index.     *)
(***************************************************************************)
EXTENDS Integers, Sequences, FiniteSets, TLC

VARIABLES
    source,       \* the input, as the sequence of pieces it is written from
    html,         \* HTMLParser.parse argument: the characters of the input
    i,            \* parse: the index of the character under the cursor (0-based)
    state,        \* self.state
    buffer,       \* self.buffer
    attr_name,    \* self.attr_name
    current_tag,  \* self.current_tag: a heap index, or None
    dom,          \* self.dom: heap indices of the top-level nodes
    tag_stack,    \* self.tag_stack: heap indices of the open elements
    nodes,        \* the heap: every node dict created so far
    self_closed,  \* history: the elements handed to handle_tag_self_closing
    steps,        \* history: loop iterations executed so far
    pc,           \* "loop" inside the while loop, "done" after return, "raised" after an exception;
                  \* "idle" while MDParser runs
    markdown,     \* MDParser.parse argument: the characters of the input
    lines,        \* parse: markdown.splitlines()
    md_i,         \* parse: the index of the current line (0-based)
    md_dom,       \* MDParser's self.dom: the block-level nodes built so far
    md_buffer,    \* MDParser's self.buffer: the pending paragraph text
    md_err,       \* the exception parse raised, "" for none
    md_steps,     \* history: iterations of the main loop executed so far
    md_pc,        \* "loop", "done", "raised" as pc; "idle" while HTMLParser runs
    symbols,      \* Symbol.collection.symbols: the registered types, in order
    found,        \* the last call of find_symbol: its arguments and its outcome
    subject,      \* the argument of the element operation under study: a generic node,
                  \* a symbol or a string; "none" while no such operation is studied
    outcome,      \* the last element operation: its name, the exception it raised and its value
    sym_parent,   \* Symbol.parent of each symbol object, None for unset
    sym_children, \* Symbol.children of each symbol object: symbol objects, in order
    sym_prepared, \* Symbol.prepared of each symbol object
    threads,      \* the threads calling Symbol.from_html: their arguments and results, which
                  \* one runs, and the locals of parse of the one that waits
    dicts         \* the dict objects that hold styles, the two default arguments first,
                  \* and which of them is the styles of each symbol made by Symbol() or copy

hvars == <<source, html, i, state, buffer, attr_name, current_tag, dom, tag_stack,
           nodes, self_closed, steps, pc>>

mvars == <<markdown, lines, md_i, md_dom, md_buffer, md_err, md_steps, md_pc>>

cvars == <<symbols, found>>

svars == <<subject, outcome, sym_parent, sym_children, sym_prepared, threads, dicts>>

vars == <<hvars, mvars, cvars, svars>>

None == 0

----------------------------------------------------------------------------
(* Bounds of the model *)

MaxLen == 3       \* longest raw character input
MaxTokens == 4    \* longest input written from whole tags and text runs
MaxAttrs == 2     \* most attributes on the tag of an attribute input
MaxLines == 4     \* most lines of a Markdown input
MaxStall == 2     \* iterations of MDParser's main loop followed beyond one per line
MaxSymbols == 3   \* most types registered in the collection

----------------------------------------------------------------------------
(* Characters and strings *)

\* the no-break space: str.isspace() holds of it, the patterns of MDParser
\* do not count it as indentation, and str.splitlines() does not split at it
NBSP == "nbsp"
Whitespace == {" ", "\t", "\n", NBSP}

isspace(c) == c \in Whitespace

\* bool(s.strip()): s holds a character that is not whitespace
strip_nonempty(s) == \E k \in 1..Len(s) : ~isspace(s[k])

RECURSIVE Flatten(_)
Flatten(ss) == IF ss = <<>> THEN <<>> ELSE Head(ss) \o Flatten(Tail(ss))

Last(s) == s[Len(s)]
Front(s) == SubSeq(s, 1, Len(s) - 1)
Range(s) == {s[k] : k \in 1..Len(s)}

RECURSIVE SeqsUpTo(_, _)
SeqsUpTo(S, n) ==
    IF n = 0 THEN {<<>>}
    ELSE LET shorter == SeqsUpTo(S, n - 1)
         IN  shorter \cup {Append(s, x) : s \in {t \in shorter : Len(t) = n - 1}, x \in S}

----------------------------------------------------------------------------
(* Generic nodes (parse/typing.py) and the HTMLParser handlers.           *)
(* A handler takes and returns h = [nodes, dom, tag_stack, err]: the heap, *)
(* self.dom, self.tag_stack, and whether the handler raised.              *)

TextName == <<"t", "e", "x", "t">>

\* {"type": "element", 'name': ..., 'attributes': {}, 'children': []}
new_element(name) ==
    [type |-> "element", name |-> name, attributes |-> <<>>, children |-> <<>>]

\* {'type': 'text', 'content': text, 'name': 'text'}
text_node(text) == [type |-> "text", content |-> text, name |-> TextName]

\* d[key] = value on a dict kept as its sequence of <<key, value>> items:
\* an existing key keeps its place, a new key goes last.
dict_set(d, key, value) ==
    IF \E k \in 1..Len(d) : d[k][1] = key
    THEN [k \in 1..Len(d) |-> IF d[k][1] = key THEN <<key, value>> ELSE d[k]]
    ELSE Append(d, <<key, value>>)

dict_has(d, key) == \E k \in 1..Len(d) : d[k][1] = key
dict_get(d, key) == d[CHOOSE k \in 1..Len(d) : d[k][1] = key][2]

\* self.current_tag['attributes'][self.attr_name] = value
set_attribute(ns, tag, key, value) ==
    [ns EXCEPT ![tag].attributes = dict_set(@, key, value)]

\* attach as it would be if every node went to the top-level list
attach_to_dom(h, x) == [h EXCEPT !.dom = Append(@, x)]

\* `self.tag_stack[-1]['children'].append(x)` or `self.dom.append(x)`;
\* subscripting a None on top of the stack raises TypeError.
attach(h, x) ==
    IF Len(h.tag_stack) > 0
    THEN LET top == Last(h.tag_stack)
         IN  IF top = None
             THEN [h EXCEPT !.err = TRUE]
             ELSE [h EXCEPT !.nodes[top].children = Append(@, x)]
    ELSE [h EXCEPT !.dom = Append(@, x)]

handle_tag_open(h, tag) ==
    LET a == attach(h, tag)
    IN  IF a.err THEN a ELSE [a EXCEPT !.tag_stack = Append(@, tag)]

\* mutant: a self-closing element is pushed like an opening one
handle_tag_self_closing_pushes(h, tag) == handle_tag_open(h, tag)

handle_tag_self_closing(h, tag) == attach(h, tag)

\* mutant: the innermost open element is popped whatever its name
handle_tag_close_any(h, tag_name) ==
    IF Len(h.tag_stack) > 0 THEN [h EXCEPT !.tag_stack = Front(@)] ELSE h

handle_tag_close(h, tag_name) ==
    IF Len(h.tag_stack) > 0
    THEN LET top == Last(h.tag_stack)
         IN  IF top = None
             THEN [h EXCEPT !.err = TRUE]
             ELSE IF h.nodes[top].name = tag_name
                  THEN [h EXCEPT !.tag_stack = Front(@)]
                  ELSE h
    ELSE h

handle_text(h, text) ==
    LET n == Len(h.nodes) + 1
    IN  attach([h EXCEPT !.nodes = Append(@, text_node(text))], n)

\* mutant: the buffer is flushed without the strip() test
flush_text_always(h, buf) == handle_text(h, buf)

\* `if self.buffer.strip(): self.handle_text(self.buffer)`
flush_text(h, buf) == IF strip_nonempty(buf) THEN handle_text(h, buf) ELSE h

Heap == [nodes |-> nodes, dom |-> dom, tag_stack |-> tag_stack, err |-> FALSE]

\* mutant: no element dict is created for the tag
create_current_tag_missing(h, name) == [heap |-> h, tag |-> None]

\* self.current_tag = {"type": "element", 'name': self.buffer, ...}: a new dict
create_current_tag(h, name) ==
    [heap |-> [h EXCEPT !.nodes = Append(@, new_element(name))],
     tag  |-> Len(h.nodes) + 1]

\* self.current_tag['attributes'][self.attr_name] = value; TypeError on None
set_current_attribute(h, tag, key, value) ==
    IF tag = None
    THEN [h EXCEPT !.err = TRUE]
    ELSE [h EXCEPT !.nodes = set_attribute(@, tag, key, value)]

\* mutant: the index is moved back one character too many
reconsider_twice(k) == k - 2

\* `i -= 1  # Reconsider this character`
reconsider(k) == k - 1

----------------------------------------------------------------------------
(* HTMLParser.parse: one action per parser state; each is one iteration   *)
(* of the while loop, `i += 1` at its end included.                        *)

InLoop(s) == pc = "loop" /\ i < Len(html) /\ state = s

char == html[i + 1]

\* the handlers' effects on self, and the exception if one was raised
Commit(h) ==
    /\ nodes' = h.nodes
    /\ dom' = h.dom
    /\ tag_stack' = h.tag_stack
    /\ pc' = IF h.err THEN "raised" ELSE "loop"

\* `self.handle_tag_open(self.current_tag); self.buffer = ''; self.state = 'TEXT'`
OpenTag(h, tag) ==
    /\ Commit(handle_tag_open(h, tag))
    /\ buffer' = <<>>
    /\ state' = "TEXT"

NextChar == i' = i + 1 /\ steps' = steps + 1

TEXT ==
    /\ InLoop("TEXT")
    /\ IF char = "<"
       THEN /\ Commit(flush_text(Heap, buffer))
            /\ buffer' = <<>>
            /\ state' = "TAG_START"
       ELSE /\ buffer' = Append(buffer, char)
            /\ UNCHANGED <<nodes, dom, tag_stack, pc, state>>
    /\ NextChar
    /\ UNCHANGED <<mvars, cvars, svars, source, html, attr_name, current_tag, self_closed>>

TAG_START ==
    /\ InLoop("TAG_START")
    /\ IF char = "/"
       THEN state' = "CLOSING_TAG" /\ UNCHANGED buffer
       ELSE IF char = "!"
            THEN state' = "COMMENT_OR_DOCTYPE" /\ buffer' = <<"!">>
            ELSE state' = "TAG_NAME" /\ buffer' = <<char>>
    /\ NextChar
    /\ UNCHANGED <<mvars, cvars, svars, source, html, attr_name, current_tag, dom, tag_stack, nodes,
                   self_closed, pc>>

TAG_NAME ==
    /\ InLoop("TAG_NAME")
    /\ LET c == create_current_tag(Heap, buffer)
       IN  IF isspace(char)
           THEN /\ Commit(c.heap)
                /\ current_tag' = c.tag
                /\ buffer' = <<>>
                /\ state' = "BEFORE_ATTRIBUTE_NAME"
           ELSE IF char = ">"
                THEN /\ current_tag' = c.tag
                     /\ OpenTag(c.heap, c.tag)
                ELSE IF char = "/"
                     THEN /\ Commit(c.heap)
                          /\ current_tag' = c.tag
                          /\ state' = "SELF_CLOSING_TAG"
                          /\ UNCHANGED buffer
                     ELSE /\ buffer' = Append(buffer, char)
                          /\ UNCHANGED <<nodes, dom, tag_stack, pc, state, current_tag>>
    /\ NextChar
    /\ UNCHANGED <<mvars, cvars, svars, source, html, attr_name, self_closed>>

BEFORE_ATTRIBUTE_NAME ==
    /\ InLoop("BEFORE_ATTRIBUTE_NAME")
    /\ IF isspace(char)
       THEN UNCHANGED <<nodes, dom, tag_stack, pc, state, buffer, attr_name>>
       ELSE IF char = ">"
            THEN OpenTag(Heap, current_tag) /\ UNCHANGED attr_name
            ELSE IF char = "/"
                 THEN /\ state' = "SELF_CLOSING_TAG"
                      /\ UNCHANGED <<nodes, dom, tag_stack, pc, buffer, attr_name>>
                 ELSE /\ attr_name' = <<char>>
                      /\ state' = "ATTRIBUTE_NAME"
                      /\ UNCHANGED <<nodes, dom, tag_stack, pc, buffer>>
    /\ NextChar
    /\ UNCHANGED <<mvars, cvars, svars, source, html, current_tag, self_closed>>

ATTRIBUTE_NAME ==
    /\ InLoop("ATTRIBUTE_NAME")
    /\ LET h == set_current_attribute(Heap, current_tag, attr_name, <<>>)
       IN  IF isspace(char)
           THEN /\ Commit(h)
                /\ state' = "AFTER_ATTRIBUTE_NAME"
                /\ UNCHANGED <<buffer, attr_name>>
           ELSE IF char = "="
                THEN /\ state' = "BEFORE_ATTRIBUTE_VALUE"
                     /\ UNCHANGED <<nodes, dom, tag_stack, pc, buffer, attr_name>>
                ELSE IF char = ">"
                     THEN /\ IF h.err THEN Commit(h) /\ UNCHANGED <<buffer, state>>
                                      ELSE OpenTag(h, current_tag)
                          /\ UNCHANGED attr_name
                     ELSE IF char = "/"
                          THEN /\ Commit(h)
                               /\ state' = "SELF_CLOSING_TAG"
                               /\ UNCHANGED <<buffer, attr_name>>
                          ELSE /\ attr_name' = Append(attr_name, char)
                               /\ UNCHANGED <<nodes, dom, tag_stack, pc, state, buffer>>
    /\ NextChar
    /\ UNCHANGED <<mvars, cvars, svars, source, html, current_tag, self_closed>>

AFTER_ATTRIBUTE_NAME ==
    /\ InLoop("AFTER_ATTRIBUTE_NAME")
    /\ IF isspace(char)
       THEN UNCHANGED <<nodes, dom, tag_stack, pc, state, buffer, attr_name>>
       ELSE IF char = "="
            THEN /\ state' = "BEFORE_ATTRIBUTE_VALUE"
                 /\ UNCHANGED <<nodes, dom, tag_stack, pc, buffer, attr_name>>
            ELSE IF char = ">"
                 THEN OpenTag(Heap, current_tag) /\ UNCHANGED attr_name
                 ELSE IF char = "/"
                      THEN /\ state' = "SELF_CLOSING_TAG"
                           /\ UNCHANGED <<nodes, dom, tag_stack, pc, buffer, attr_name>>
                      ELSE /\ Commit(set_current_attribute(Heap, current_tag, attr_name, <<>>))
                           /\ attr_name' = <<char>>
                           /\ state' = "ATTRIBUTE_NAME"
                           /\ UNCHANGED buffer
    /\ NextChar
    /\ UNCHANGED <<mvars, cvars, svars, source, html, current_tag, self_closed>>

BEFORE_ATTRIBUTE_VALUE ==
    /\ InLoop("BEFORE_ATTRIBUTE_VALUE")
    /\ IF isspace(char)
       THEN UNCHANGED <<nodes, dom, tag_stack, pc, state, buffer>>
       ELSE IF char = "\""
            THEN /\ buffer' = <<>>
                 /\ state' = "ATTRIBUTE_VALUE_DOUBLE_QUOTED"
                 /\ UNCHANGED <<nodes, dom, tag_stack, pc>>
            ELSE IF char = "'"
                 THEN /\ buffer' = <<>>
                      /\ state' = "ATTRIBUTE_VALUE_SINGLE_QUOTED"
                      /\ UNCHANGED <<nodes, dom, tag_stack, pc>>
                 ELSE IF char = ">"
                      THEN LET h == set_current_attribute(Heap, current_tag, attr_name, <<>>)
                           IN  IF h.err THEN Commit(h) /\ UNCHANGED <<buffer, state>>
                                        ELSE OpenTag(h, current_tag)
                      ELSE /\ buffer' = <<char>>
                           /\ state' = "ATTRIBUTE_VALUE_UNQUOTED"
                           /\ UNCHANGED <<nodes, dom, tag_stack, pc>>
    /\ NextChar
    /\ UNCHANGED <<mvars, cvars, svars, source, html, attr_name, current_tag, self_closed>>

\* the two quoted states differ in the quote character only
QuotedValue(quote) ==
    /\ IF char = quote
       THEN /\ Commit(set_current_attribute(Heap, current_tag, attr_name, buffer))
            /\ buffer' = <<>>
            /\ state' = "AFTER_ATTRIBUTE_VALUE_QUOTED"
       ELSE /\ buffer' = Append(buffer, char)
            /\ UNCHANGED <<nodes, dom, tag_stack, pc, state>>
    /\ NextChar
    /\ UNCHANGED <<mvars, cvars, svars, source, html, attr_name, current_tag, self_closed>>

ATTRIBUTE_VALUE_DOUBLE_QUOTED ==
    InLoop("ATTRIBUTE_VALUE_DOUBLE_QUOTED") /\ QuotedValue("\"")

ATTRIBUTE_VALUE_SINGLE_QUOTED ==
    InLoop("ATTRIBUTE_VALUE_SINGLE_QUOTED") /\ QuotedValue("'")

ATTRIBUTE_VALUE_UNQUOTED ==
    /\ InLoop("ATTRIBUTE_VALUE_UNQUOTED")
    /\ LET h == set_current_attribute(Heap, current_tag, attr_name, buffer)
       IN  IF isspace(char)
           THEN /\ Commit(h)
                /\ buffer' = <<>>
                /\ state' = "BEFORE_ATTRIBUTE_NAME"
           ELSE IF char = ">"
                THEN IF h.err THEN Commit(h) /\ UNCHANGED <<buffer, state>>
                              ELSE OpenTag(h, current_tag)
                ELSE IF char = "/"
                     THEN /\ Commit(h)
                          /\ buffer' = <<>>
                          /\ state' = "SELF_CLOSING_TAG"
                     ELSE /\ buffer' = Append(buffer, char)
                          /\ UNCHANGED <<nodes, dom, tag_stack, pc, state>>
    /\ NextChar
    /\ UNCHANGED <<mvars, cvars, svars, source, html, attr_name, current_tag, self_closed>>

AFTER_ATTRIBUTE_VALUE_QUOTED ==
    /\ InLoop("AFTER_ATTRIBUTE_VALUE_QUOTED")
    /\ IF isspace(char)
       THEN /\ state' = "BEFORE_ATTRIBUTE_NAME"
            /\ i' = i + 1
            /\ UNCHANGED <<nodes, dom, tag_stack, pc, buffer>>
       ELSE IF char = "/"
            THEN /\ state' = "SELF_CLOSING_TAG"
                 /\ i' = i + 1
                 /\ UNCHANGED <<nodes, dom, tag_stack, pc, buffer>>
            ELSE IF char = ">"
                 THEN OpenTag(Heap, current_tag) /\ i' = i + 1
                 ELSE /\ state' = "BEFORE_ATTRIBUTE_NAME"
                      /\ i' = reconsider(i) + 1
                      /\ UNCHANGED <<nodes, dom, tag_stack, pc, buffer>>
    /\ steps' = steps + 1
    /\ UNCHANGED <<mvars, cvars, svars, source, html, attr_name, current_tag, self_closed>>

SELF_CLOSING_TAG ==
    /\ InLoop("SELF_CLOSING_TAG")
    /\ IF char = ">"
       THEN /\ Commit(handle_tag_self_closing(Heap, current_tag))
            /\ self_closed' = self_closed \cup {current_tag}
            /\ buffer' = <<>>
            /\ state' = "TEXT"
       ELSE UNCHANGED <<nodes, dom, tag_stack, pc, buffer, state, self_closed>>
    /\ NextChar
    /\ UNCHANGED <<mvars, cvars, svars, source, html, attr_name, current_tag>>

CLOSING_TAG ==
    /\ InLoop("CLOSING_TAG")
    /\ IF char = ">"
       THEN /\ Commit(handle_tag_close(Heap, buffer))
            /\ buffer' = <<>>
            /\ state' = "TEXT"
       ELSE /\ buffer' = Append(buffer, char)
            /\ UNCHANGED <<nodes, dom, tag_stack, pc, state>>
    /\ NextChar
    /\ UNCHANGED <<mvars, cvars, svars, source, html, attr_name, current_tag, self_closed>>

\* no branch of the loop body handles this state: only `i += 1` runs
COMMENT_OR_DOCTYPE ==
    /\ InLoop("COMMENT_OR_DOCTYPE")
    /\ NextChar
    /\ UNCHANGED <<mvars, cvars, svars, source, html, state, buffer, attr_name, current_tag, dom, tag_stack,
                   nodes, self_closed, pc>>

\* after the loop: flush the remaining text and `return self.dom`
\* the end of parse as it would be if the buffer were flushed in any state
Return_flushes_in_any_state ==
    /\ pc = "loop"
    /\ i >= Len(html)
    /\ LET h == flush_text(Heap, buffer)
       IN  /\ nodes' = h.nodes
           /\ dom' = h.dom
           /\ tag_stack' = h.tag_stack
           /\ pc' = IF h.err THEN "raised" ELSE "done"
    /\ UNCHANGED <<mvars, cvars, svars, source, html, i, state, buffer, attr_name, current_tag, self_closed,
                   steps>>

Return ==
    /\ pc = "loop"
    /\ i >= Len(html)
    /\ LET h == IF state = "TEXT" THEN flush_text(Heap, buffer) ELSE Heap
       IN  /\ nodes' = h.nodes
           /\ dom' = h.dom
           /\ tag_stack' = h.tag_stack
           /\ pc' = IF h.err THEN "raised" ELSE "done"
    /\ UNCHANGED <<mvars, cvars, svars, source, html, i, state, buffer, attr_name, current_tag, self_closed,
                   steps>>

----------------------------------------------------------------------------
(* The tree a heap index stands for, as the nested value Python prints.   *)

RECURSIVE Tree(_, _)
Tree(ns, id) ==
    IF id = None THEN "None"
    ELSE IF ns[id].type = "text" THEN ns[id]
    ELSE [ns[id] EXCEPT !.children = [k \in 1..Len(@) |-> Tree(ns, @[k])]]

Forest(ns, ids) == [k \in 1..Len(ids) |-> Tree(ns, ids[k])]

\* the value parse returns
Result == Forest(nodes, dom)

----------------------------------------------------------------------------
(* The inputs of HTMLParser.parse.  An input is written as a sequence of  *)
(* pieces; html is the concatenation of their texts.                       *)

Piece(kind, name, attrs, text) ==
    [kind |-> kind, name |-> name, attrs |-> attrs, text |-> text]

\* one attribute as written in a tag: name, name="value", name='value', name=value
Attr(name, form, value) == [name |-> name, form |-> form, value |-> value]

AttrText(a) ==
    CASE a.form = "bare" -> a.name
      [] a.form = "dq"   -> a.name \o <<"=", "\"">> \o a.value \o <<"\"">>
      [] a.form = "sq"   -> a.name \o <<"=", "'">> \o a.value \o <<"'">>
      [] a.form = "uq"   -> a.name \o <<"=">> \o a.value

RECURSIVE AttrsText(_)
AttrsText(attrs) ==
    IF attrs = <<>> THEN <<>>
    ELSE <<" ">> \o AttrText(Head(attrs)) \o AttrsText(Tail(attrs))

Raw(s) == Piece("raw", <<>>, <<>>, s)
Txt(s) == Piece("text", <<>>, <<>>, s)
Open(name, attrs) ==
    Piece("open", name, attrs, <<"<">> \o name \o AttrsText(attrs) \o <<">">>)
SelfClose(name, attrs) ==
    Piece("selfclose", name, attrs, <<"<">> \o name \o AttrsText(attrs) \o <<"/", ">">>)
Close(name) == Piece("close", name, <<>>, <<"<", "/">> \o name \o <<">">>)

\* every string over these characters up to MaxLen, alone and after a prefix
\* that puts the parser inside a tag
CharAlphabet == {"<", ">", "/", "=", "\"", " ", "a", "!"}
CharPrefixes ==
    { <<>>,
      <<"<", "a", " ">>,
      <<"<", "a", " ", "a", "=">>,
      <<"<", "a", " ", "a", "=", "'", "a", "'">>,
      <<"<", "a", ">">>,
      <<"<", "/">> }
CharInputs(n) ==
    {<<Raw(p \o s)>> : p \in CharPrefixes, s \in SeqsUpTo(CharAlphabet, n)}

\* text runs, opening, closing and self-closing tags in every order
NestPieces ==
    { Txt(<<"x">>), Txt(<<" ">>),
      Open(<<"a">>, <<>>), Close(<<"a">>),
      Open(<<"b">>, <<>>), Close(<<"b">>),
      SelfClose(<<"b">>, <<>>) }
NestInputs(n) == SeqsUpTo(NestPieces, n)

\* one tag with up to MaxAttrs attributes, alone or as <a ...>x</a>
AttrChoices ==
    { Attr(<<"k">>, "dq", <<"v">>),
      Attr(<<"k">>, "sq", <<"v", " ", "w">>),
      Attr(<<"k">>, "uq", <<"v">>),
      Attr(<<"k">>, "bare", <<>>),
      Attr(<<"j">>, "dq", <<>>),
      Attr(<<"j">>, "sq", <<"/", ">">>),
      Attr(<<"j">>, "uq", <<"x", "/", "y">>),
      Attr(<<"j">>, "bare", <<>>) }
AttrInputs(n) ==
    {<<tag>> \o rest :
        tag \in {Open(<<"a">>, as) : as \in SeqsUpTo(AttrChoices, n)}
                \cup {SelfClose(<<"a">>, as) : as \in SeqsUpTo(AttrChoices, n)},
        rest \in {<<>>, <<Txt(<<"x">>), Close(<<"a">>)>>}}

\* the inputs section 8 of the specification names
Div == <<"d", "i", "v">>
Span == <<"s", "p", "a", "n">>
MismatchedClose ==       \* <div><span>text</div>
    <<Open(Div, <<>>), Open(Span, <<>>), Txt(<<"t", "e", "x", "t">>), Close(Div)>>
HiThere ==               \* <p>hi <b>there</b></p>
    <<Open(<<"p">>, <<>>), Txt(<<"h", "i", " ">>), Open(<<"b">>, <<>>),
      Txt(<<"t", "h", "e", "r", "e">>), Close(<<"b">>), Close(<<"p">>)>>
Scenarios == {MismatchedClose, HiThere}

Inputs(len, tokens, attrs) ==
    CharInputs(len) \cup NestInputs(tokens) \cup AttrInputs(attrs) \cup Scenarios

PieceTexts(src) == [k \in 1..Len(src) |-> src[k].text]

\* HTMLParser.reset, then parse's `i = 0`
\* MDParser is not running
\* no call of find_symbol was made yet
NoCall == [name |-> <<>>, raise_errors |-> FALSE, err |-> "", value |-> "NoCall"]

\* Symbol.collection = Collection(): no type registered
CIdle ==
    /\ symbols = <<>>
    /\ found = NoCall

\* most symbol objects of a tree under mutation
MaxObjects == 3
Objects == 1..MaxObjects

NoSubject == [kind |-> "none"]
NoLocals == [html |-> <<>>, i |-> 0, pc |-> "idle"]
NoDicts == [store |-> <<>>, styles |-> <<>>]
NoThreads == [running |-> 0, inputs |-> <<>>, waiting |-> NoLocals, results |-> <<>>, preemptions |-> 0]
NoOutcome == [op |-> "", err |-> "", value |-> "NoCall"]

\* no element operation was made yet; every symbol object as Symbol() leaves it
SIdle ==
    /\ subject = NoSubject
    /\ outcome = NoOutcome
    /\ sym_parent = [o \in Objects |-> None]
    /\ sym_children = [o \in Objects |-> <<>>]
    /\ sym_prepared = [o \in Objects |-> FALSE]
    /\ threads = NoThreads
    /\ dicts = NoDicts

MDIdle ==
    /\ markdown = <<>>
    /\ lines = <<>>
    /\ md_i = 0
    /\ md_dom = <<>>
    /\ md_buffer = <<>>
    /\ md_err = ""
    /\ md_steps = 0
    /\ md_pc = "idle"

Init ==
    /\ MDIdle
    /\ CIdle
    /\ SIdle
    /\ source \in Inputs(MaxLen, MaxTokens, MaxAttrs)
    /\ html = Flatten(PieceTexts(source))
    /\ i = 0
    /\ current_tag = None
    /\ dom = <<>>
    /\ state = "TEXT"
    /\ buffer = <<>>
    /\ attr_name = <<>>
    /\ tag_stack = <<>>
    /\ nodes = <<>>
    /\ self_closed = {}
    /\ steps = 0
    /\ pc = "loop"

Next ==
    \/ TEXT
    \/ TAG_START
    \/ TAG_NAME
    \/ BEFORE_ATTRIBUTE_NAME
    \/ ATTRIBUTE_NAME
    \/ AFTER_ATTRIBUTE_NAME
    \/ BEFORE_ATTRIBUTE_VALUE
    \/ ATTRIBUTE_VALUE_DOUBLE_QUOTED
    \/ ATTRIBUTE_VALUE_SINGLE_QUOTED
    \/ ATTRIBUTE_VALUE_UNQUOTED
    \/ AFTER_ATTRIBUTE_VALUE_QUOTED
    \/ SELF_CLOSING_TAG
    \/ CLOSING_TAG
    \/ COMMENT_OR_DOCTYPE
    \/ Return

Spec == Init /\ [][Next]_vars

----------------------------------------------------------------------------
(* MDParser: strings and the regular expressions of top_level_tags.       *)
(* A line is a sequence of characters without a newline.  Each pattern is  *)
(* an operator that returns what re.match returns on the line: whether it  *)
(* matched and the groups the handlers read.  A group that did not take    *)
(* part in the match, Python's None, is NoneStr.                           *)

NoneStr == <<"None">>

StartsWith(s, p) == Len(s) >= Len(p) /\ SubSeq(s, 1, Len(p)) = p
Drop(s, n) == SubSeq(s, n + 1, Len(s))

\* str.lstrip(), str.rstrip(), str.strip()
RECURSIVE lstrip(_)
lstrip(s) == IF s # <<>> /\ isspace(Head(s)) THEN lstrip(Tail(s)) ELSE s
RECURSIVE rstrip(_)
rstrip(s) == IF s # <<>> /\ isspace(Last(s)) THEN rstrip(Front(s)) ELSE s
strip(s) == rstrip(lstrip(s))

\* str.removeprefix(p)
removeprefix(s, p) == IF StartsWith(s, p) THEN Drop(s, Len(p)) ELSE s

\* sep.join(ss)
RECURSIVE join(_, _)
join(sep, ss) ==
    IF ss = <<>> THEN <<>>
    ELSE IF Len(ss) = 1 THEN ss[1]
    ELSE ss[1] \o sep \o join(sep, Tail(ss))

\* the length of the longest prefix of s made of characters of S
RECURSIVE Span_(_, _)
Span_(s, S) == IF s # <<>> /\ Head(s) \in S THEN 1 + Span_(Tail(s), S) ELSE 0

NoMatch == [ok |-> FALSE]

\* the tail `(?: (.*))?$` of the h, ul and ol patterns: the end of the line,
\* or a space and the group
OptionalText(rest) == rest = <<>> \/ Head(rest) = " "
OptionalGroup(rest) == IF rest = <<>> THEN NoneStr ELSE Tail(rest)

\* "blockquote": r"^> (.+)$"
match_blockquote(line) ==
    IF StartsWith(line, <<">", " ">>) /\ Len(line) >= 3
    THEN [ok |-> TRUE, g1 |-> Drop(line, 2)]
    ELSE NoMatch

\* "h": r"^(#{1,6})(?: (.*))?$"
match_h(line) ==
    LET n == Span_(line, {"#"})
    IN  IF n >= 1 /\ n <= 6 /\ OptionalText(Drop(line, n))
        THEN [ok |-> TRUE, g1 |-> SubSeq(line, 1, n), g2 |-> OptionalGroup(Drop(line, n))]
        ELSE NoMatch

\* "hr": r"^---+$"
match_hr(line) ==
    IF Len(line) >= 3 /\ Span_(line, {"-"}) = Len(line)
    THEN [ok |-> TRUE] ELSE NoMatch

IndentChars == {" ", "|", "\t"}
Digits == {"0", "1", "2", "3", "4", "5", "6", "7", "8", "9"}

\* "ul": r"^([ |\t]*)(?:-|\+|\*)(?: (.*))?$"
match_ul(line) ==
    LET n == Span_(line, IndentChars)
        rest == Drop(line, n)
    IN  IF rest # <<>> /\ Head(rest) \in {"-", "+", "*"} /\ OptionalText(Tail(rest))
        THEN [ok |-> TRUE, g1 |-> SubSeq(line, 1, n), g2 |-> OptionalGroup(Tail(rest))]
        ELSE NoMatch

\* "ol": r"^([ |\t]*)(\d)\.(?: (.*))?$"
match_ol(line) ==
    LET n == Span_(line, IndentChars)
        rest == Drop(line, n)
    IN  IF Len(rest) >= 2 /\ rest[1] \in Digits /\ rest[2] = "."
           /\ OptionalText(Drop(rest, 2))
        THEN [ok |-> TRUE, g1 |-> SubSeq(line, 1, n), g2 |-> <<rest[1]>>,
              g3 |-> OptionalGroup(Drop(rest, 2))]
        ELSE NoMatch

\* str.split(sep) for a one-character sep
RECURSIVE split(_, _)
split(s, sep) ==
    LET n == Span_(s, {c \in Range(s) : c # sep})
    IN  IF n = Len(s) THEN <<s>>
        ELSE <<SubSeq(s, 1, n)>> \o split(Drop(s, n + 1), sep)

\* `:?-+:?`
AlignCell(c) ==
    LET a == IF Head(c) = ":" THEN Tail(c) ELSE c
        b == IF a # <<>> /\ Last(a) = ":" THEN Front(a) ELSE a
    IN  b # <<>> /\ Span_(b, {"-"}) = Len(b)

\* s is one or more cells, each one or more characters other than '|'
\* followed by '|'; with `aligned`, each cell is an alignment cell
Cells(s, aligned) ==
    /\ s # <<>>
    /\ Last(s) = "|"
    /\ \A k \in 1..Len(split(Front(s), "|")) :
          /\ split(Front(s), "|")[k] # <<>>
          /\ aligned => AlignCell(split(Front(s), "|")[k])

\* "tr": r"^\|(?:[^|\n]+\|)+$"
match_tr(line) ==
    IF line # <<>> /\ Head(line) = "|" /\ Cells(Tail(line), FALSE)
    THEN [ok |-> TRUE] ELSE NoMatch

\* "thead": r"^\|(?::?-+:?\|)+$"
match_thead(line) ==
    IF line # <<>> /\ Head(line) = "|" /\ Cells(Tail(line), TRUE)
    THEN [ok |-> TRUE] ELSE NoMatch

TitlePrefix == <<"t", "i", "t", "l", "e", ":", " ">>

\* "title": r"^title: .+$"; the pattern has no group
match_title(line) ==
    IF StartsWith(line, TitlePrefix) /\ Len(line) > Len(TitlePrefix)
    THEN [ok |-> TRUE] ELSE NoMatch

\* "br": r"\n\n" at the start of the text
match_br(text) ==
    IF StartsWith(text, <<"\n", "\n">>) THEN [ok |-> TRUE] ELSE NoMatch

\* re.search(r"\n\n", text)
search_br(text) ==
    \E k \in 1..(Len(text) - 1) : text[k] = "\n" /\ text[k + 1] = "\n"

Letters == {"a", "b", "c", "d", "e", "i", "l", "t", "x", "y"}
\* the backtick character, which a TLA+ string cannot hold
Backtick == "backtick"
Fence == <<Backtick, Backtick, Backtick>>

\* what is between the language and the closing fence:
\* `[^.](?:([^`]*)[^.])?`
CodeCore(core) ==
    /\ core # <<>>
    /\ Head(core) # "."
    /\ Len(core) >= 2 =>
          /\ Last(core) # "."
          /\ \A k \in 2..(Len(core) - 1) : core[k] # Backtick

\* "code": r"^```([A-Za-z]*)[^.](?:([^`]*)[^.])?```$" on a text that may span
\* lines: `$` is the end of the text, or the newline that ends it; the
\* language is the longest run of letters that lets the rest match
match_code(text) ==
    LET body == IF text # <<>> /\ Last(text) = "\n" THEN Front(text) ELSE text
        fits(l) ==
            /\ Len(body) >= 6 + l
            /\ StartsWith(body, Fence)
            /\ Drop(body, Len(body) - 3) = Fence
            /\ CodeCore(SubSeq(body, 4 + l, Len(body) - 3))
        most == IF StartsWith(text, Fence) THEN Span_(Drop(text, 3), Letters) ELSE 0
        ls == {l \in 0..most : fits(l)}
    IN  IF ls = {} THEN NoMatch
        ELSE LET l == CHOOSE x \in ls : \A y \in ls : y <= x
                 core == SubSeq(body, 4 + l, Len(body) - 3)
             IN  [ok |-> TRUE, g1 |-> SubSeq(body, 4, 3 + l),
                  g2 |-> IF Len(core) >= 2 THEN SubSeq(core, 2, Len(core) - 1) ELSE NoneStr]

\* any(re.match(pattern, line) for pattern in self.top_level_tags.values())
matches_any(line) ==
    \/ match_blockquote(line).ok
    \/ match_br(line).ok
    \/ match_code(line).ok
    \/ match_h(line).ok
    \/ match_hr(line).ok
    \/ match_ul(line).ok
    \/ match_ol(line).ok
    \/ match_tr(line).ok
    \/ match_thead(line).ok
    \/ match_title(line).ok

----------------------------------------------------------------------------
(* MDParser: nodes and block handlers.  MDParser builds plain nested       *)
(* values, so a node is the value itself.  A handler takes and returns     *)
(* st = [dom, buffer, err, n]: self.dom, self.buffer, the exception raised *)
(* ("" for none) and the handler's return value.                           *)

create_element(name, attrs, children) ==
    [type |-> "element", name |-> name, attributes |-> attrs, children |-> children]

create_text(content) == [type |-> "text", content |-> content, name |-> TextName]


\* f"h{level}"
Str_h(level) == <<"h", Head(SubSeq(<<"1", "2", "3", "4", "5", "6">>, level, level))>>

Raise(st, exception) == [st EXCEPT !.err = exception]

end_block(st) ==
    IF st.buffer # <<>>
    THEN LET text == strip(st.buffer)
         IN  [st EXCEPT !.dom = IF text # <<>>
                                THEN Append(@, create_element(<<"p">>, <<>>, <<create_text(text)>>))
                                ELSE @,
                        !.buffer = <<>>]
    ELSE st

\* handle_br(text): text[0] and text[1] raise IndexError when text is too short
handle_br(st, text) ==
    LET s1 == end_block(st)
    IN  IF Len(text) < 1 \/ (text[1] = <<>> /\ Len(text) < 2)
        THEN Raise(s1, "IndexError")
        ELSE IF text[1] = <<>> /\ text[2] = <<>>
             THEN [s1 EXCEPT !.dom = Append(@, create_element(<<"b", "r">>, <<>>, <<>>)), !.n = 1]
             ELSE [s1 EXCEPT !.n = 0]

handle_h(st, line) ==
    LET s1 == end_block(st)
        match == match_h(line)
    IN  IF ~match.ok THEN Raise(s1, "AssertionError")
        ELSE [s1 EXCEPT !.dom = Append(@, create_element(Str_h(Len(match.g1)), <<>>,
                                                         <<create_text(match.g2)>>))]

handle_hr(st, line) ==
    [end_block(st) EXCEPT !.dom = Append(@, create_element(<<"h", "r">>, <<>>, <<>>))]

\* handle_text as it would be if a line replaced the buffer instead of joining it
md_handle_text_overwrites(st, line) ==
    IF strip(line) = <<>>
    THEN IF line = <<>> THEN Raise(end_block(st), "IndexError") ELSE end_block(st)
    ELSE [st EXCEPT !.buffer = line]

\* MDParser.handle_text(line); a blank line goes to handle_br with the line itself as
\* `text`, whose text[0] is then a character, or IndexError on ''
md_handle_text(st, line) ==
    IF strip(line) = <<>>
    THEN IF line = <<>> THEN Raise(end_block(st), "IndexError") ELSE end_block(st)
    ELSE [st EXCEPT !.buffer = IF @ # <<>> THEN @ \o <<"\n">> \o line ELSE line]

\* handle_title(line): a match of the title pattern has no group 1
handle_title(st, line) ==
    LET s1 == end_block(st)
    IN  IF ~match_title(line).ok THEN Raise(s1, "AssertionError") ELSE Raise(s1, "IndexError")

\* handle_code(text): the returned index of the fence within the text cut at
\* the fence is 0
handle_code(st, text) ==
    LET s1 == end_block(st)
        match == match_code(join(<<"\n">>, text))
    IN  IF ~match.ok THEN Raise(s1, "AssertionError")
        ELSE [s1 EXCEPT
                !.dom = Append(@, create_element(<<"p", "r", "e">>, <<>>,
                           <<create_element(<<"c", "o", "d", "e">>, <<<<<<"l", "a", "n", "g", "u", "a", "g", "e">>, match.g1>>>>,
                                            <<create_text(match.g2)>>)>>)),
                !.n = 0]

\* " ".join(current_item).strip()
item_content(current_item) == strip(join(<<" ">>, current_item))

\* the li appended for a finished item, if it has content
add_item(children, current_item) ==
    IF current_item # <<>> /\ item_content(current_item) # <<>>
    THEN Append(children, create_element(<<"l", "i">>, <<>>, <<create_text(item_content(current_item))>>))
    ELSE children

list_pattern(kind, line) == IF kind = "ul" THEN match_ul(line) ELSE match_ol(line)

\* which list a first line starts: ul is tried before ol
list_kind(line) ==
    IF match_ul(line).ok THEN "ul" ELSE IF match_ol(line).ok THEN "ol" ELSE "none"

RECURSIVE handle_list(_, _, _, _)
RECURSIVE handle_list_loop(_, _, _, _, _)
RECURSIVE handle_list_line(_, _, _, _, _, _)
RECURSIVE handle_list_item(_, _, _, _, _, _)
RECURSIVE handle_list_nested(_, _, _, _, _, _)

\* the while loop of handle_list; L = [st, children, current_item, lines_processed]
handle_list_loop(L, text, i0, indent_level, kind) ==
    IF L.st.err # "" \/ i0 + L.lines_processed >= Len(text) THEN L
    ELSE handle_list_line(L, text[i0 + L.lines_processed + 1], text, i0, indent_level, kind)

\* one iteration, on `line`
handle_list_line(L, line, text, i0, indent_level, kind) ==
    IF strip(line) = <<>>
    THEN handle_list_loop(
             [L EXCEPT !.current_item = IF @ # <<>> THEN Append(@, <<>>) ELSE @,
                       !.lines_processed = @ + 1],
             text, i0, indent_level, kind)
    ELSE IF list_pattern(kind, line).ok
    THEN handle_list_item(L, list_pattern(kind, line), text, i0, indent_level, kind)
    ELSE IF ~matches_any(line)
    THEN handle_list_loop(
             [L EXCEPT !.current_item = Append(@, strip(line)),
                       !.lines_processed = @ + 1],
             text, i0, indent_level, kind)
    ELSE L

\* the line is an item line: by its indent, the list ends, a nested list
\* starts, or the item starts; group 2 is None after a bare marker, and
\* None.strip() raises
handle_list_item(L, list_match, text, i0, indent_level, kind) ==
    IF Len(list_match.g1) < indent_level THEN L
    ELSE IF Len(list_match.g1) > indent_level
    THEN handle_list_nested(
             L, handle_list(L.st, Drop(text, i0 + L.lines_processed), 0, Len(list_match.g1)),
             text, i0, indent_level, kind)
    ELSE IF list_match.g2 = NoneStr
    THEN [L EXCEPT !.children = add_item(@, L.current_item),
                   !.st = Raise(@, "AttributeError")]
    ELSE handle_list_loop(
             [L EXCEPT !.children = add_item(@, L.current_item),
                       !.current_item = <<strip(list_match.g2)>>,
                       !.lines_processed = @ + 1],
             text, i0, indent_level, kind)

\* after the nested call returned sub:
\*   nested_lines = lines_processed + <returned>; lines_processed += nested_lines
handle_list_nested(L, sub, text, i0, indent_level, kind) ==
    IF sub.err = "" /\ L.lines_processed + sub.n = 0
    THEN [L EXCEPT !.st = Raise(sub, "Hang")]
    ELSE handle_list_loop(
             [L EXCEPT !.st = sub, !.lines_processed = @ + (L.lines_processed + sub.n)],
             text, i0, indent_level, kind)

\* after the loop: the final item, self.dom.append(list_elm)
handle_list_end(L, kind) ==
    IF L.st.err # "" THEN L.st
    ELSE [L.st EXCEPT
            !.dom = Append(@, create_element(IF kind = "ul" THEN <<"u", "l">> ELSE <<"o", "l">>, <<>>,
                                             add_item(L.children, L.current_item))),
            !.n = L.lines_processed]

handle_list_of(kind, st, text, i0, indent_level) ==
    IF kind = "none" THEN [st EXCEPT !.n = 0]
    ELSE handle_list_end(
             handle_list_loop([st |-> st, children |-> <<>>, current_item |-> <<>>,
                               lines_processed |-> 0],
                              text, i0, indent_level, kind),
             kind)

handle_list(st, text, i0, indent_level) ==
    handle_list_of(list_kind(text[i0 + 1]), st, text, i0, indent_level)

\* str.strip('|') as it would be if the outer bars were kept
strip_bar_kept(s) == s

\* str.strip('|')
RECURSIVE strip_bar(_)
strip_bar(s) ==
    IF s # <<>> /\ Head(s) = "|" THEN strip_bar(Tail(s))
    ELSE IF s # <<>> /\ Last(s) = "|" THEN strip_bar(Front(s))
    ELSE s

\* the tr element of the cells of one table line, with cells of type cell_type
table_row(cells, cell_type) ==
    create_element(<<"t", "r">>, <<>>,
        [k \in 1..Len(cells) |->
            create_element(cell_type, <<>>, <<create_text(strip(strip(cells[k])))>>)])

\* the while loop of handle_table; T = [thead, tbody, current_section,
\* lines_processed], thead and tbody being the rows of either section
RECURSIVE handle_table_loop(_, _, _)
RECURSIVE handle_table_line(_, _, _, _)

handle_table_loop(T, text, i0) ==
    IF i0 + T.lines_processed >= Len(text) THEN T
    ELSE handle_table_line(T, text[i0 + T.lines_processed + 1], text, i0)

handle_table_line(T, line, text, i0) ==
    IF strip(line) = <<>> THEN T
    ELSE IF match_thead(line).ok
    THEN handle_table_loop([T EXCEPT !.current_section = "tbody",
                                     !.lines_processed = @ + 1], text, i0)
    ELSE IF match_tr(line).ok
    THEN handle_table_loop(
             IF T.current_section = "thead"
             THEN [T EXCEPT !.thead = Append(@, table_row(split(strip_bar(line), "|"), <<"t", "h">>)),
                            !.lines_processed = @ + 1]
             ELSE [T EXCEPT !.tbody = Append(@, table_row(split(strip_bar(line), "|"), <<"t", "d">>)),
                            !.lines_processed = @ + 1],
             text, i0)
    ELSE T

\* after the loop: the sections that have rows, self.dom.append(table)
handle_table_end(st, T) ==
    [st EXCEPT
        !.dom = Append(@, create_element(<<"t", "a", "b", "l", "e">>, <<>>,
                   (IF T.thead # <<>> THEN <<create_element(<<"t", "h", "e", "a", "d">>, <<>>, T.thead)>> ELSE <<>>)
                   \o (IF T.tbody # <<>> THEN <<create_element(<<"t", "b", "o", "d", "y">>, <<>>, T.tbody)>> ELSE <<>>))),
        !.n = T.lines_processed]

handle_table(st, text, i0) ==
    IF i0 + 1 >= Len(text) \/ ~match_thead(text[i0 + 2]).ok
    THEN [md_handle_text(st, text[i0 + 1]) EXCEPT !.n = 1]
    ELSE handle_table_end(st,
             handle_table_loop([thead |-> <<>>, tbody |-> <<>>, current_section |-> "thead",
                                lines_processed |-> 0], text, i0))

\* line.removeprefix("> ").removeprefix(">").strip()
quote_content(line) == strip(removeprefix(removeprefix(line, <<">", " ">>), <<">">>))

\* the for loop of handle_blockquote over text[i:]; B = [new_text, current_line]
RECURSIVE handle_blockquote_loop(_, _)
handle_blockquote_loop(B, text) ==
    IF text = <<>> THEN B
    ELSE IF match_blockquote(Head(text)).ok
    THEN handle_blockquote_loop(
             [B EXCEPT !.current_line = IF quote_content(Head(text)) # <<>>
                                        THEN Append(@, quote_content(Head(text))) ELSE @],
             Tail(text))
    ELSE IF strip(Head(text)) = <<>>
    THEN handle_blockquote_loop(
             IF B.current_line # <<>>
             THEN [new_text |-> B.new_text \o <<join(<<" ">>, B.current_line), <<>>>>,
                   current_line |-> <<>>]
             ELSE B,
             Tail(text))
    ELSE IF ~matches_any(Head(text))
    THEN handle_blockquote_loop([B EXCEPT !.current_line = Append(@, strip(Head(text)))],
                                Tail(text))
    ELSE B

\* after the loop: the pending line joins new_text
blockquote_text(B) ==
    IF B.current_line # <<>>
    THEN Append(B.new_text, join(<<" ">>, B.current_line))
    ELSE B.new_text

\* str.splitlines() of a text whose only line boundary is "\n"
splitlines(s) ==
    IF s = <<>> THEN <<>>
    ELSE IF Last(s) = "\n" THEN Front(split(s, "\n")) ELSE split(s, "\n")

\* the blockquote's children is the element the nested parse returned; its
\* exception leaves handle_blockquote
blockquote_end(st, inner, new_text) ==
    IF inner.err # "" THEN Raise(st, inner.err)
    ELSE [st EXCEPT !.dom = Append(@, create_element(<<"b", "l", "o", "c", "k", "q", "u", "o", "t", "e">>, <<>>, inner.value)),
                    !.n = Len(new_text) - 1]

RECURSIVE parse(_)
RECURSIVE handle_blockquote_parse(_, _)
RECURSIVE handle_blockquote(_, _, _)
RECURSIVE step(_, _, _)
RECURSIVE run(_, _)
RECURSIVE run_on(_, _, _)

handle_blockquote_parse(st, new_text) ==
    blockquote_end(st, parse(join(<<"\n">>, new_text)), new_text)

handle_blockquote(st, text, i0) ==
    handle_blockquote_parse(st,
        blockquote_text(handle_blockquote_loop([new_text |-> <<>>, current_line |-> <<>>],
                                               Drop(text, i0))))

\* the dispatch as it would be if a line went to handle_h on its first
\* character alone
Dispatch_on_first_char(text, i0) ==
    IF strip(text[i0 + 1]) = <<>> THEN "blank"
    ELSE IF Head(strip(text[i0 + 1])) = "#" THEN "h"
    ELSE IF match_blockquote(strip(text[i0 + 1])).ok THEN "blockquote"
    ELSE IF match_code(join(<<"\n">>, Drop(text, i0))).ok THEN "code"
    ELSE IF match_hr(strip(text[i0 + 1])).ok THEN "hr"
    ELSE IF match_ul(strip(text[i0 + 1])).ok \/ match_ol(strip(text[i0 + 1])).ok THEN "list"
    ELSE IF match_tr(strip(text[i0 + 1])).ok THEN "tr"
    ELSE IF match_title(strip(text[i0 + 1])).ok THEN "title"
    ELSE IF search_br(strip(text[i0 + 1])) THEN "br"
    ELSE "text"

\* which branch of the main loop of parse takes line number i0 (0-based)
Dispatch(text, i0) ==
    IF strip(text[i0 + 1]) = <<>> THEN "blank"
    ELSE IF match_h(strip(text[i0 + 1])).ok THEN "h"
    ELSE IF match_blockquote(strip(text[i0 + 1])).ok THEN "blockquote"
    ELSE IF match_code(join(<<"\n">>, Drop(text, i0))).ok THEN "code"
    ELSE IF match_h(strip(text[i0 + 1])).ok THEN "h"
    ELSE IF match_hr(strip(text[i0 + 1])).ok THEN "hr"
    ELSE IF match_ul(strip(text[i0 + 1])).ok \/ match_ol(strip(text[i0 + 1])).ok THEN "list"
    ELSE IF match_tr(strip(text[i0 + 1])).ok THEN "tr"
    ELSE IF match_title(strip(text[i0 + 1])).ok THEN "title"
    ELSE IF search_br(strip(text[i0 + 1])) THEN "br"
    ELSE "text"

\* MDParser.reset, and i = 0
reset == [dom |-> <<>>, buffer |-> <<>>, err |-> "", n |-> 0, i |-> 0]

\* i += <what the handler returned> + more
advance(st, more) == [st EXCEPT !.i = @ + st.n + more, !.n = 0]

\* one iteration of the while loop of parse, by branch
step(branch, st, text) ==
    CASE branch = "blank" -> advance(end_block(st), 1)
      [] branch = "h" -> advance(handle_h(end_block(st), strip(text[st.i + 1])), 1)
      [] branch = "blockquote" -> advance(handle_blockquote(end_block(st), text, st.i), 1)
      [] branch = "code" -> advance(handle_code(end_block(st), Drop(text, st.i)), 1)
      [] branch = "hr" -> advance(handle_hr(end_block(st), strip(text[st.i + 1])), 1)
      [] branch = "list" -> advance(handle_list(end_block(st), text, st.i, 0), 0)
      [] branch = "tr" -> advance(handle_table(end_block(st), text, st.i), 0)
      [] branch = "title" -> advance(handle_title(end_block(st), strip(text[st.i + 1])), 1)
      [] branch = "br" -> advance(handle_br(end_block(st), Drop(text, st.i)), 0)
      [] OTHER -> advance(md_handle_text(st, strip(text[st.i + 1])), 1)

\* the while loop of parse, from st on; an iteration that raises nothing and
\* leaves i where it was repeats for ever
run(st, text) ==
    IF st.err # "" \/ st.i >= Len(text) THEN st
    ELSE run_on(st, step(Dispatch(text, st.i), st, text), text)

run_on(st, next, text) ==
    IF next.err = "" /\ next.i = st.i THEN Raise(next, "Hang") ELSE run(next, text)

\* what parse returns after the loop: `create_element("head") or self.head`
\* is the new, empty head
finish(st) ==
    create_element(<<"h", "t", "m", "l">>, <<>>,
        <<create_element(<<"h", "e", "a", "d">>, <<>>, <<>>),
          create_element(<<"b", "o", "d", "y">>, <<>>, end_block(st).dom)>>)

returned(st) ==
    IF st.err # "" THEN [err |-> st.err] ELSE [err |-> "", value |-> finish(st)]

\* MDParser().parse(markdown) as a whole: the exception raised, or the value
parse(text) == returned(run(reset, splitlines(text)))

----------------------------------------------------------------------------
(* MDParser.parse as a state machine: one action per branch of the main    *)
(* loop that a line can take, one step per iteration.  The second test of  *)
(* the "h" pattern and the test of the "br" pattern follow tests that      *)
(* already took every line they match, so no iteration takes them.         *)

\* the parser's state as the handlers take it
MDState == [dom |-> md_dom, buffer |-> md_buffer, err |-> "", n |-> 0, i |-> md_i]

\* the iteration ends in state st: an exception leaves parse
MDCommit(st) ==
    /\ md_dom' = st.dom
    /\ md_buffer' = st.buffer
    /\ md_err' = st.err
    /\ md_i' = st.i
    /\ md_pc' = IF st.err # "" THEN "raised" ELSE "loop"
    /\ md_steps' = md_steps + 1

\* the loop runs, and the current line takes this branch
InBranch(branch) ==
    /\ md_pc = "loop"
    /\ md_i < Len(lines)
    /\ md_steps < Len(lines) + MaxStall
    /\ Dispatch(lines, md_i) = branch

BlankLine ==
    /\ InBranch("blank")
    /\ MDCommit(step("blank", MDState, lines))
    /\ UNCHANGED <<hvars, cvars, svars, markdown, lines>>

HeaderLine ==
    /\ InBranch("h")
    /\ MDCommit(step("h", MDState, lines))
    /\ UNCHANGED <<hvars, cvars, svars, markdown, lines>>

BlockquoteLine ==
    /\ InBranch("blockquote")
    /\ MDCommit(step("blockquote", MDState, lines))
    /\ UNCHANGED <<hvars, cvars, svars, markdown, lines>>

CodeLine ==
    /\ InBranch("code")
    /\ MDCommit(step("code", MDState, lines))
    /\ UNCHANGED <<hvars, cvars, svars, markdown, lines>>

HrLine ==
    /\ InBranch("hr")
    /\ MDCommit(step("hr", MDState, lines))
    /\ UNCHANGED <<hvars, cvars, svars, markdown, lines>>

ListLine ==
    /\ InBranch("list")
    /\ MDCommit(step("list", MDState, lines))
    /\ UNCHANGED <<hvars, cvars, svars, markdown, lines>>

TableLine ==
    /\ InBranch("tr")
    /\ MDCommit(step("tr", MDState, lines))
    /\ UNCHANGED <<hvars, cvars, svars, markdown, lines>>

TitleLine ==
    /\ InBranch("title")
    /\ MDCommit(step("title", MDState, lines))
    /\ UNCHANGED <<hvars, cvars, svars, markdown, lines>>

TextLine ==
    /\ InBranch("text")
    /\ MDCommit(step("text", MDState, lines))
    /\ UNCHANGED <<hvars, cvars, svars, markdown, lines>>

\* after the loop: end_block(), then the root element is returned
MDReturn ==
    /\ md_pc = "loop"
    /\ md_i >= Len(lines)
    /\ md_dom' = end_block(MDState).dom
    /\ md_buffer' = end_block(MDState).buffer
    /\ md_pc' = "done"
    /\ UNCHANGED <<hvars, cvars, svars, markdown, lines, md_i, md_err, md_steps>>

\* the value parse returns, once md_pc = "done"
MDResult == finish(MDState)

----------------------------------------------------------------------------
(* Markdown inputs: up to MaxLines lines, drawn from the lines of one      *)
(* family, joined by newlines.                                             *)

ParagraphLines ==
    { <<"#", " ", "t">>,                    \* # t
      <<"#", "#", " ", " ", "x", " ">>,     \* ##  x   (text with a leading space)
      <<"a">>,
      <<" ", "b", " ">>,
      <<>>,
      <<"\t">> }

ListLines ==
    { <<"-", " ", "a">>,
      <<" ", " ", "-", " ", "b">>,
      <<" ", " ", " ", " ", "-", " ", "d">>,
      <<"1", ".", " ", "e">>,
      <<"x">>,
      <<>> }

BlockLines ==
    { <<">", " ", "a">>,
      Fence,
      <<"-", "-", "-">>,
      <<"|", "a", "|", "b", "|">>,
      TitlePrefix \o <<"a">>,
      <<"a">> }

TableLines ==
    { <<"|", "a", "|", "b", "|">>,
      <<"|", " ", "c", " ", "|", "d", "|">>,     \* | c |d|
      <<"|", "-", "|", "-", "|">>,
      <<" ", "|", "e", "|">>,                    \* a row after a space
      <<"x">>,
      <<>> }

\* malformed lines: lone list markers, a bare '#', a table row and a fence
\* that nothing follows up
MalformedLines ==
    { <<"-">>, <<"*">>, <<"#">>, <<"|", "a", "|">>, Fence }

\* lines that are almost a header or a title: a '#' that no space follows,
\* seven of them, and a 'title:' that no text follows
AlmostLines ==
    { <<"#", "a">>, <<"#", "#", "#", "#", "#", "#", "#", " ", "t">>, TitlePrefix }

MDInputs(n) ==
    { join(<<"\n">>, ls) : ls \in SeqsUpTo(ParagraphLines, n)
                                   \cup SeqsUpTo(ListLines, n)
                                   \cup SeqsUpTo(BlockLines, n)
                                   \cup SeqsUpTo(TableLines, n)
                                   \cup SeqsUpTo(MalformedLines, n)
                                   \cup SeqsUpTo(AlmostLines, n) }

\* HTMLParser is not running
HTMLIdle ==
    /\ source = <<>>
    /\ html = <<>>
    /\ i = 0
    /\ current_tag = None
    /\ dom = <<>>
    /\ state = "TEXT"
    /\ buffer = <<>>
    /\ attr_name = <<>>
    /\ tag_stack = <<>>
    /\ nodes = <<>>
    /\ self_closed = {}
    /\ steps = 0
    /\ pc = "idle"

MDInit ==
    /\ HTMLIdle
    /\ SIdle
    /\ CIdle
    /\ markdown \in MDInputs(MaxLines)
    /\ lines = splitlines(markdown)
    /\ md_i = 0
    /\ md_dom = <<>>
    /\ md_buffer = <<>>
    /\ md_err = ""
    /\ md_steps = 0
    /\ md_pc = "loop"

MDNext ==
    \/ BlankLine
    \/ HeaderLine
    \/ BlockquoteLine
    \/ CodeLine
    \/ HrLine
    \/ ListLine
    \/ TableLine
    \/ TitleLine
    \/ TextLine
    \/ MDReturn

MDSpec == MDInit /\ [][MDNext]_vars

----------------------------------------------------------------------------
(* Collection: the registered element types and find_symbol.  A type is    *)
(* [cls, html]: the class and its html attribute, which is a str, or the   *)
(* CustomHTML instance of code.py.  find_symbol returns                    *)
(* [err, value]: the exception raised ("" for none) and the class          *)
(* returned, "None" for None.                                              *)

\* a str html attribute, and the HTML() instance of code.py
Str(tag) == [custom |-> FALSE, tag |-> tag]
HTML == [custom |-> TRUE, tag |-> <<"c", "o", "d", "e">>]

\* str.lower() on the letters of the names below
Upper == <<"A", "B", "C", "D", "E", "I", "L", "O", "T">>
Lower == <<"a", "b", "c", "d", "e", "i", "l", "o", "t">>
lower(text) ==
    [k \in 1..Len(text) |->
        IF \E u \in 1..Len(Upper) : Upper[u] = text[k]
        THEN Lower[CHOOSE u \in 1..Len(Upper) : Upper[u] = text[k]]
        ELSE text[k]]

\* HTML.verify(text) of code.py
verify(text) == lower(text) = <<"c", "o", "d", "e">>

symbol_matches_nocase(symbol, name) ==
    \/ ~symbol.html.custom /\ symbol.html.tag = lower(name)
    \/ symbol.html.custom /\ verify(name)

\* the test of one symbol in the loop of find_symbol
symbol_matches(symbol, name) ==
    \/ ~symbol.html.custom /\ symbol.html.tag = name
    \/ symbol.html.custom /\ verify(name)

RECURSIVE find_symbol_loop(_, _)
RECURSIVE remove_symbol(_, _)

find_symbol_last(syms, name) ==
    IF \A k \in 1..Len(syms) : ~symbol_matches(syms[k], name) THEN "None"
    ELSE syms[CHOOSE k \in 1..Len(syms) :
                 /\ symbol_matches(syms[k], name)
                 /\ \A j \in (k + 1)..Len(syms) : ~symbol_matches(syms[j], name)].cls

\* the for loop of find_symbol: the first symbol that passes the test
find_symbol_loop(syms, name) ==
    IF syms = <<>> THEN "None"
    ELSE IF symbol_matches(Head(syms), name) THEN Head(syms).cls
    ELSE find_symbol_loop(Tail(syms), name)

\* Collection.find_symbol(name, raise_errors)
find_symbol(syms, name, raise_errors) ==
    IF find_symbol_loop(syms, name) # "None"
    THEN [err |-> "", value |-> find_symbol_loop(syms, name)]
    ELSE IF raise_errors THEN [err |-> "ValueError", value |-> "None"]
    ELSE [err |-> "", value |-> "None"]

\* Collection.add_symbols(symbol)
add_symbols(syms, symbol) == Append(syms, symbol)

\* Collection.remove_symbol(symbol): list.remove takes out the first
\* occurrence
remove_symbol(syms, symbol) ==
    IF Head(syms) = symbol THEN Tail(syms)
    ELSE <<Head(syms)>> \o remove_symbol(Tail(syms), symbol)

\* element types of the repository, and subclasses of two of them, which
\* inherit the html attribute of their base
Types ==
    { [cls |-> "A", html |-> Str(<<"a">>)],
      [cls |-> "SubA", html |-> Str(<<"a">>)],
      [cls |-> "Code", html |-> HTML],
      [cls |-> "SubCode", html |-> HTML],
      [cls |-> "Title", html |-> Str(<<"t", "i", "t", "l", "e">>)],
      [cls |-> "Table", html |-> Str(<<"t", "a", "b", "l", "e">>)] }

\* node names looked up
Names ==
    { <<"a">>, <<"A">>,
      <<"c", "o", "d", "e">>, <<"C", "O", "D", "E">>,
      <<"t", "i", "t", "l", "e">>, <<"T", "i", "t", "l", "e">>,
      <<"t", "a", "b", "l", "e">>, <<"T", "A", "B", "L", "E">>,
      <<"b">> }

\* class cls(Symbol): ... runs Symbol.__init_subclass__, which registers it
InitSubclass ==
    /\ Len(symbols) < MaxSymbols
    /\ \E cls \in Types : symbols' = add_symbols(symbols, cls)
    /\ UNCHANGED <<hvars, mvars, svars, found>>

\* collection.remove_symbol(symbol) of a registered symbol
RemoveSymbol ==
    /\ \E symbol \in Range(symbols) : symbols' = remove_symbol(symbols, symbol)
    /\ UNCHANGED <<hvars, mvars, svars, found>>

\* collection.find_symbol(name, raise_errors)
FindSymbol ==
    /\ \E name \in Names, raise_errors \in BOOLEAN :
          found' = [name |-> name, raise_errors |-> raise_errors,
                    err |-> find_symbol(symbols, name, raise_errors).err,
                    value |-> find_symbol(symbols, name, raise_errors).value]
    /\ UNCHANGED <<hvars, mvars, svars, symbols>>

CInit ==
    /\ HTMLIdle
    /\ MDIdle
    /\ CIdle
    /\ SIdle

CNext ==
    \/ InitSubclass
    \/ RemoveSymbol
    \/ FindSymbol

CSpec == CInit /\ [][CNext]_vars

----------------------------------------------------------------------------
(* Symbol (elements/symbol.py) and the element types: a symbol is the     *)
(* record of its class and its instance attributes; a Text carries its    *)
(* text as well.                                                           *)

StyleKey == <<"s", "t", "y", "l", "e">>
ClassKey == <<"c", "l", "a", "s", "s">>
StylesKey == <<"s", "t", "y", "l", "e", "s">>
ClassesKey == <<"c", "l", "a", "s", "s", "e", "s">>
InnerKey == <<"i", "n", "n", "e", "r">>
TypeKey == <<"t", "y", "p", "e">>
CheckedKey == <<"c", "h", "e", "c", "k", "e", "d">>
LanguageKey == <<"l", "a", "n", "g", "u", "a", "g", "e">>
IdKey == <<"i", "d">>

\* the types registered once the elements are imported
Registry ==
    << [cls |-> "Text", html |-> Str(TextName)],
       [cls |-> "A", html |-> Str(<<"a">>)],
       [cls |-> "Code", html |-> HTML],
       [cls |-> "Input", html |-> Str(<<"i", "n", "p", "u", "t">>)],
       [cls |-> "Title", html |-> Str(<<"t", "i", "t", "l", "e">>)],
       [cls |-> "Table", html |-> Str(<<"t", "a", "b", "l", "e">>)],
       [cls |-> "Tr", html |-> Str(<<"t", "r">>)],
       [cls |-> "Td", html |-> Str(<<"t", "d">>)],
       [cls |-> "Th", html |-> Str(<<"t", "h">>)],
       [cls |-> "THead", html |-> Str(<<"t", "h", "e", "a", "d">>)],
       [cls |-> "TBody", html |-> Str(<<"t", "b", "o", "d", "y">>)] >>

\* Symbol.__init__(styles, classes, inner, **props)
Symbol(cls, styles, classes, inner, props) ==
    [cls |-> cls, styles |-> styles, classes |-> classes, children |-> inner, props |-> props]

\* Text.__init__(text): self.text = text, then Symbol.__init__ with its defaults
Text(text) ==
    [cls |-> "Text", text |-> text, styles |-> <<>>, classes |-> <<>>, children |-> <<>>,
     props |-> <<>>]

\* d.pop(key, ""): the value taken out, and the dict that is left
dict_pop(d, key) == IF dict_has(d, key) THEN dict_get(d, key) ELSE <<>>
dict_without(d, key) == SelectSeq(d, LAMBDA item : item[1] # key)

\* {s.split(":")[0]: s.split(":")[1] for s in parts if ":" in s}
RECURSIVE parse_styles(_, _)
parse_styles(d, parts) ==
    IF parts = <<>> THEN d
    ELSE IF ":" \in Range(Head(parts))
         THEN parse_styles(dict_set(d, split(Head(parts), ":")[1], split(Head(parts), ":")[2]),
                           Tail(parts))
         ELSE parse_styles(d, Tail(parts))

\* list(filter(lambda c: bool(c), value.split(" ")))
parse_classes(value) == SelectSeq(split(value, " "), LAMBDA c : c # <<>>)

Raised(exception) == [err |-> exception, value |-> "None"]
Returned(value) == [err |-> "", value |-> value]

\* the parameters of Symbol.__init__ a keyword argument can collide with
InitParameters == {StylesKey, ClassesKey, InnerKey}

\* Symbol.parse(cls, text), with the registered types syms; handle_elements
\* is the comprehension [handle_element(elm) for elm in text["children"]],
\* which stops at the first exception
RECURSIVE Symbol_parse(_, _, _), handle_elements(_, _, _)
Symbol_parse(syms, cls, text) ==
    IF text.type = "text" THEN Raised("KeyError")      \* text["attributes"]
    ELSE LET attributes == dict_without(dict_without(text.attributes, StyleKey), ClassKey)
             inner == handle_elements(syms, text.children, <<>>)
         IN  IF inner.err # "" THEN Raised(inner.err)
             ELSE IF cls = "Text" \/ \E key \in InitParameters : dict_has(attributes, key)
             THEN Raised("TypeError")
             ELSE Returned(Symbol(cls,
                                  parse_styles(<<>>, split(dict_pop(text.attributes, StyleKey), ";")),
                                  parse_classes(dict_pop(text.attributes, ClassKey)),
                                  inner.value, attributes))

\* handle_element of Symbol.parse
handle_element(syms, element) ==
    IF element.type = "text"
    THEN IF find_symbol(syms, TextName, TRUE).err # "" THEN Raised("ValueError")
         ELSE Returned(Text(element.content))
    ELSE IF find_symbol(syms, element.name, TRUE).err # "" THEN Raised("ValueError")
         ELSE Symbol_parse(syms, find_symbol(syms, element.name, TRUE).value, element)

handle_elements(syms, elms, done) ==
    IF elms = <<>> THEN Returned(done)
    ELSE IF handle_element(syms, Head(elms)).err # "" THEN Raised(handle_element(syms, Head(elms)).err)
    ELSE handle_elements(syms, Tail(elms), Append(done, handle_element(syms, Head(elms)).value))

\* the node `text` after cls.parse(text): "style" and "class" are popped off
\* its attributes before the children are handled, and the children are
\* handled one after the other up to the first that raises
RECURSIVE parsed_text(_, _, _), parsed_children(_, _)
parsed_text(syms, cls, text) ==
    IF text.type = "text" THEN text
    ELSE [text EXCEPT !.attributes = dict_without(dict_without(@, StyleKey), ClassKey),
                      !.children = parsed_children(syms, @)]

\* the node `element` after handle_element(element)
parsed_element(syms, element) ==
    IF element.type = "text" \/ find_symbol(syms, element.name, TRUE).err # "" THEN element
    ELSE parsed_text(syms, find_symbol(syms, element.name, TRUE).value, element)

parsed_children(syms, elms) ==
    IF elms = <<>> THEN <<>>
    ELSE IF handle_element(syms, Head(elms)).err # ""
    THEN <<parsed_element(syms, Head(elms))>> \o Tail(elms)
    ELSE <<parsed_element(syms, Head(elms))>> \o parsed_children(syms, Tail(elms))

\* Symbol.from_html after html_parser.parse: the comprehension over the
\* top-level nodes, each handed to the parse of the type its name resolves to
RECURSIVE from_html(_, _, _)
from_html(syms, parsed, done) ==
    IF parsed = <<>> THEN Returned(done)
    ELSE IF find_symbol(syms, Head(parsed).name, TRUE).err # "" THEN Raised("ValueError")
    ELSE IF Symbol_parse(syms, find_symbol(syms, Head(parsed).name, TRUE).value, Head(parsed)).err # ""
    THEN Raised(Symbol_parse(syms, find_symbol(syms, Head(parsed).name, TRUE).value, Head(parsed)).err)
    ELSE from_html(syms, Tail(parsed),
                   Append(done, Symbol_parse(syms, find_symbol(syms, Head(parsed).name, TRUE).value,
                                      Head(parsed)).value))

----------------------------------------------------------------------------
(* Rendering: Symbol.to_html, Text.to_html and the custom renderer of     *)
(* Code.                                                                   *)

\* the html attribute of a type
html_of(cls) == Registry[CHOOSE k \in 1..Len(Registry) : Registry[k].cls = cls].html

\* self.props.get(prop, default)
get_prop(sym, prop, default) == IF dict_has(sym.props, prop) THEN dict_get(sym.props, prop) ELSE default

\* '    ' * indent
RECURSIVE Indent(_)
Indent(indent) == IF indent = 0 THEN <<>> ELSE <<" ", " ", " ", " ">> \o Indent(indent - 1)

\* [f(x) for x in xs]
Map(f(_), xs) == [k \in 1..Len(xs) |-> f(xs[k])]

\* f'{k}:{v}' for a style
StyleText(item) == item[1] \o <<":">> \o item[2]

\* f'{k}="{v}"' if v != "" else f'{k}' for a prop
PropText(item) == IF item[2] # <<>> THEN item[1] \o <<"=", "\"">> \o item[2] \o <<"\"">> ELSE item[1]

\* what to_html writes between the tag name and '>' or ' />'
AttributesText(sym) ==
    (IF sym.styles # <<>> \/ sym.classes # <<>> \/ sym.props # <<>> THEN <<" ">> ELSE <<>>)
    \o (IF sym.classes # <<>>
        THEN ClassKey \o <<"=", "\"">> \o join(<<" ">>, sym.classes) \o <<"\"">> ELSE <<>>)
    \o (IF (sym.styles # <<>> \/ sym.classes # <<>>) /\ sym.props # <<>> THEN <<" ">> ELSE <<>>)
    \o (IF sym.styles # <<>>
        THEN StyleKey \o <<"=", "\"">> \o join(<<" ">>, Map(StyleText, sym.styles)) \o <<"\"">>
        ELSE <<>>)
    \o (IF (sym.styles # <<>> \/ sym.classes # <<>>) /\ sym.props # <<>> THEN <<" ">> ELSE <<>>)
    \o join(<<" ">>, Map(PropText, sym.props))

\* the return of Symbol.to_html: the tag with its content when inner_HTML is
\* not empty, the self-closing tag otherwise
element_html(tag, attributes, newline, inner_HTML) ==
    <<"<">> \o tag \o attributes
    \o (IF inner_HTML # <<>>
        THEN <<">">> \o newline \o inner_HTML \o newline \o <<"<", "/">> \o tag \o <<">">>
        ELSE <<" ", "/", ">">>)

\* Symbol.to_html(indent) and Text.to_html(indent); children_html is the
\* list comprehension of Symbol.to_html, code_children_html the one of
\* code.HTML.to_html, which calls to_html() with the default indent of each
RECURSIVE to_html(_, _), children_html(_, _, _), code_children_html(_)
to_html(sym, indent) ==
    IF sym.cls = "Text" THEN Indent(indent) \o sym.text
    ELSE IF html_of(sym.cls).custom
    THEN IF get_prop(sym, LanguageKey, <<>>) # <<>>
         THEN <<"<">> \o html_of(sym.cls).tag \o <<" ">> \o ClassKey \o <<"=", "\"">>
              \o <<"l", "a", "n", "g", "u", "a", "g", "e", "-">> \o get_prop(sym, LanguageKey, <<>>)
              \o <<"\"", ">">> \o join(<<"\n">>, code_children_html(sym.children))
              \o <<"<", "/">> \o html_of(sym.cls).tag \o <<">">>
         ELSE <<"<">> \o html_of(sym.cls).tag \o <<">">>
              \o join(<<"\n">>, code_children_html(sym.children))
              \o <<"<", "/">> \o html_of(sym.cls).tag \o <<">">>
    ELSE element_html(html_of(sym.cls).tag, AttributesText(sym),
                      IF Len(sym.children) > 1 THEN <<"\n">> ELSE <<>>,
                      join(<<"\n">> \o Indent(indent),
                           children_html(sym.children, indent,
                                         Len(sym.children) = 1 /\ sym.children[1].cls = "Text")))

children_html(children, indent, only_text) ==
    [k \in 1..Len(children) |->
        IF only_text THEN to_html(children[k], 0) ELSE to_html(children[k], indent + 1)]

code_children_html(children) ==
    [k \in 1..Len(children) |->
        IF children[k].cls = "Text" THEN to_html(children[k], 0) ELSE to_html(children[k], 1)]

\* sym.to_html() with the default indent: 0 for a Text, 1 for any other
to_html_default(sym) == to_html(sym, IF sym.cls = "Text" THEN 0 ELSE 1)

----------------------------------------------------------------------------
(* Rendering to Markdown and to reStructuredText: Symbol.to_md and        *)
(* Symbol.to_rst with the custom renderers of Text, Input (input.py),      *)
(* Title (title.py) and the table types (table.py).  A renderer returns    *)
(* [err, value]; the renderers of A and Code are not part of the model.    *)

Checkbox == <<"c", "h", "e", "c", "k", "b", "o", "x">>

Max(a, b) == IF a >= b THEN a ELSE b
Min(a, b) == IF a <= b THEN a ELSE b

\* a list comprehension over calls: the first exception raised, or the list
\* of the values
Gather(rs) ==
    IF \E k \in 1..Len(rs) : rs[k].err # ""
    THEN Raised(rs[CHOOSE k \in 1..Len(rs) :
                      rs[k].err # "" /\ \A j \in 1..(k - 1) : rs[j].err = ""].err)
    ELSE Returned([k \in 1..Len(rs) |-> rs[k].value])

\* f applied to the value of a call that returned
Then(f(_), r) == IF r.err # "" THEN r ELSE Returned(f(r.value))

\* c * n
RECURSIVE Repeat(_, _)
Repeat(c, n) == IF n <= 0 THEN <<>> ELSE <<c>> \o Repeat(c, n - 1)

\* str.ljust(width)
ljust(s, width) == s \o Repeat(" ", width - Len(s))

\* '[x]' or '[ ]' of the two Input renderers
CheckText(symbol) ==
    <<"[", IF get_prop(symbol, CheckedKey, <<>>) # <<>> THEN "x" ELSE " ", "]">>

\* the validation of the two Title renderers
TitleCheck(inner) ==
    IF inner = <<>> THEN "IndexError"                     \* inner[0]
    ELSE IF inner[1].cls # "Text" \/ Len(inner) # 1 THEN "ValueError"
    ELSE ""

\* THeadMD: the widths after a row, zip stopping at the shorter list
head_widths(widths, row_cells) ==
    IF widths = <<>> THEN [k \in 1..Len(row_cells) |-> Len(row_cells[k])]
    ELSE [k \in 1..Min(Len(widths), Len(row_cells)) |-> Max(widths[k], Len(row_cells[k]))]

RECURSIVE all_head_widths(_, _)
all_head_widths(widths, rows) ==
    IF rows = <<>> THEN widths
    ELSE all_head_widths(head_widths(widths, Head(rows)), Tail(rows))

\* '|' + '|'.join(cells) + '|'
md_row(cells) == <<"|">> \o join(<<"|">>, cells) \o <<"|">>

Dashes(width) == Repeat("-", width)

\* THeadMD.to_md on the rendered cells of its rows
thead_md(rows) ==
    IF rows = <<>> THEN <<>>
    ELSE join(<<"\n">>,
              Append(Map(md_row, rows), md_row(Map(Dashes, all_head_widths(<<>>, rows)))))

\* TableMD.to_md on the rendered sections: the last thead, then the tbodys
\* that rendered to something
table_md(kinds, sections) ==
    LET heads == {k \in 1..Len(kinds) : kinds[k] = "THead"}
        thead_content == IF heads = {} THEN <<>>
                         ELSE sections[CHOOSE k \in heads : \A j \in heads : j <= k]
        tbody_rows == SelectSeq([k \in 1..Len(kinds) |->
                                    IF kinds[k] = "TBody" THEN sections[k] ELSE <<>>],
                                LAMBDA content : content # <<>>)
    IN  join(<<"\n">>,
             (IF thead_content # <<>> THEN <<thead_content>> ELSE <<>>)
             \o (IF tbody_rows # <<>> THEN <<join(<<"\n">>, tbody_rows)>> ELSE <<>>))

\* the sections TableMD and TableRST look at
IsSection(section) == section.cls \in {"THead", "TBody"}
Kind(section) == section.cls

\* str(n) for the number of children of a symbol
Decimal(n) == <<<<"0", "1", "2", "3", "4", "5", "6", "7", "8", "9">>[n + 1]>>

\* Symbol.__str__, which is __repr__ as well, for a symbol whose html is a
\* string: the opening tag as to_html writes it, the number of children and
\* the closing tag
Symbol_str(sym) ==
    <<"<">> \o html_of(sym.cls).tag \o AttributesText(sym) \o <<">">>
    \o (IF Len(sym.children) > 1 THEN <<"\n", "\n">> ELSE <<>>)
    \o Decimal(Len(sym.children)) \o <<"<", "/">> \o html_of(sym.cls).tag \o <<">">>

\* f"{inner}" for the list inner: the repr of a list
list_str(inner) == <<"[">> \o join(<<",", " ">>, Map(Symbol_str, inner)) \o <<"]">>

\* code.MD.to_md: inner is the list of the children, which is no Text and
\* holds no str, so it is written as a list and never taken as multiline
code_md(inner, language) ==
    IF language # <<>>
    THEN <<Backtick, Backtick, Backtick>> \o language \o <<"\n">> \o list_str(inner)
         \o <<"\n", Backtick, Backtick, Backtick, "\n">>
    ELSE <<Backtick>> \o list_str(inner) \o <<Backtick>>

\* code.RST.to_rst on content, the joined to_rst of the children
code_rst(content, language) ==
    LET indented_content ==
            join(<<"\n">>, Map(LAMBDA line : <<" ", " ", " ">> \o line, split(strip(content), "\n")))
    IN  IF language # <<>>
        THEN <<".", ".", " ", "c", "o", "d", "e", "-", "b", "l", "o", "c", "k", ":", ":", " ">>
             \o language \o <<"\n", "\n">> \o indented_content \o <<"\n", "\n">>
        ELSE IF "\n" \in Range(content)
        THEN <<":", ":", "\n", "\n">> \o indented_content \o <<"\n", "\n">>
        ELSE IF Backtick \in Range(content)
        THEN <<Backtick, Backtick>> \o content \o <<Backtick, Backtick>>
        ELSE <<Backtick>> \o content \o <<Backtick>>

RECURSIVE to_md(_)
rows_md(inner) ==
    Gather([k \in 1..Len(inner) |-> Gather(Map(to_md, inner[k].children))])

\* sym.to_md()
to_md(sym) ==
    IF sym.cls = "Text" THEN Returned(sym.text)
    ELSE IF sym.cls = "Input"
    THEN IF get_prop(sym, TypeKey, <<>>) = Checkbox
         THEN Raised("AttributeError")                         \* inner.to_md() on a list
         ELSE Returned(to_html_default(sym))
    ELSE IF sym.cls = "Code"
    THEN Returned(code_md(sym.children, get_prop(sym, LanguageKey, <<>>)))
    ELSE IF sym.cls = "Title"
    THEN IF TitleCheck(sym.children) # "" THEN Raised(TitleCheck(sym.children))
         ELSE Returned(<<"t", "i", "t", "l", "e", ":", " ", "\"">> \o sym.children[1].text
                       \o <<"\"">>)
    ELSE IF sym.cls \in {"Td", "Th"}
    THEN Then(LAMBDA cells : join(<<" ">>, cells), Gather(Map(to_md, sym.children)))
    ELSE IF sym.cls = "Tr"
    THEN Then(md_row, Gather(Map(to_md, sym.children)))
    ELSE IF sym.cls = "TBody"
    THEN Then(LAMBDA rows : join(<<"\n">>, rows), Gather(Map(to_md, sym.children)))
    ELSE IF sym.cls = "THead"
    THEN Then(thead_md, rows_md(sym.children))
    ELSE \* Table
         Then(LAMBDA sections : table_md(Map(Kind, SelectSeq(sym.children, IsSection)), sections),
              Gather(Map(to_md, SelectSeq(sym.children, IsSection))))

\* TableRST: the widths after a row, the cells padded with '' to the widths
col_widths(widths, cells) ==
    IF widths = <<>> THEN [k \in 1..Len(cells) |-> Len(cells[k])]
    ELSE [k \in 1..Len(widths) |->
            Max(widths[k], IF k <= Len(cells) THEN Len(cells[k]) ELSE 0)]

RECURSIVE all_col_widths(_, _)
all_col_widths(widths, all_rows) ==
    IF all_rows = <<>> THEN widths
    ELSE all_col_widths(col_widths(widths, Head(all_rows).cells), Tail(all_rows))

\* '+' + '+'.join([char * (width + 2) for width in col_widths]) + '+'
border(line, widths) ==
    <<"+">> \o join(<<"+">>, [k \in 1..Len(widths) |-> Repeat(line, widths[k] + 2)]) \o <<"+">>

\* a row line without the padding: every cell as it is
rst_row_unpadded(cells, widths) ==
    <<"|", " ">> \o join(<<" ", "|", " ">>, cells) \o <<" ", "|">>

\* the row line, zip stopping at the shorter of cells and col_widths
rst_row(cells, widths) ==
    <<"|", " ">>
    \o join(<<" ", "|", " ">>,
            [k \in 1..Min(Len(cells), Len(widths)) |-> ljust(cells[k], widths[k])])
    \o <<" ", "|">>

\* TableRST.to_rst on all_rows, the rendered cells of the rows of the
\* sections, each with is_header
table_rst(all_rows) ==
    IF all_rows = <<>> THEN <<>>
    ELSE LET widths == all_col_widths(<<>>, all_rows)
         IN  join(<<"\n">>,
                  <<border("-", widths)>>
                  \o Flatten([k \in 1..Len(all_rows) |->
                                <<rst_row(all_rows[k].cells, widths),
                                  border(IF all_rows[k].is_header THEN "=" ELSE "-", widths)>>]))

RECURSIVE to_rst(_)
\* the first pass of TableRST.to_rst over a section
section_rows(section) ==
    Gather([k \in 1..Len(section.children) |->
              Then(LAMBDA cells : [cells |-> cells, is_header |-> section.cls = "THead"],
                   Gather(Map(to_rst, section.children[k].children)))])

\* sym.to_rst()
to_rst(sym) ==
    IF sym.cls = "Text" THEN Returned(sym.text)
    ELSE IF sym.cls = "Input"
    THEN IF get_prop(sym, TypeKey, <<>>) = Checkbox
         THEN IF sym.children # <<>> THEN Raised("AttributeError")   \* inner.to_rst() on a list
              ELSE Returned(CheckText(sym) \o <<" ">>)
         ELSE Returned(<<>>)
    ELSE IF sym.cls = "Code"
    THEN Then(LAMBDA parts : code_rst(Flatten(parts), get_prop(sym, LanguageKey, <<>>)),
              Gather(Map(to_rst, sym.children)))
    ELSE IF sym.cls = "Title"
    THEN IF TitleCheck(sym.children) # "" THEN Raised(TitleCheck(sym.children))
         ELSE Returned(<<":", "t", "i", "t", "l", "e", ":", " ">> \o sym.children[1].text)
    ELSE IF sym.cls \in {"Td", "Th"}
    THEN Then(LAMBDA cells : join(<<" ">>, cells), Gather(Map(to_rst, sym.children)))
    ELSE IF sym.cls \in {"Tr", "TBody", "THead"}
    THEN Returned(<<>>)
    ELSE \* Table
         Then(LAMBDA sections : table_rst(Flatten(sections)),
              Gather(Map(section_rows, SelectSeq(sym.children, IsSection))))

----------------------------------------------------------------------------
(* The element operations as steps: each takes the subject and leaves its *)
(* outcome.                                                                *)

\* most children of a node or of a symbol of an input
MaxChildren == 2

\* an ELEMENT of parse/typing.py
element_node(name, attributes, children) ==
    [type |-> "element", name |-> name, attributes |-> attributes, children |-> children]

\* attribute dicts of the node inputs: style and class values, with and
\* without further attributes
NodeAttrs ==
    { <<>>,
      << <<StyleKey, <<"a", ":", "b">> >> >>,
      << <<StyleKey, <<"a", ":", "b", ";", "c", ":", "d">> >> >>,
      << <<StyleKey, <<"a", ":", "b", ":", "c">> >> >>,
      << <<StyleKey, <<"a", ":", "b", ";", "a", ":", "c">> >> >>,
      << <<StyleKey, <<"a", ";", "b", ":", "c", ";">> >> >>,
      << <<ClassKey, <<"x">> >> >>,
      << <<ClassKey, <<"x", " ", " ", "y">> >> >>,
      << <<ClassKey, <<" ", "y", " ", "x">> >>, <<IdKey, <<"q">> >> >>,
      << <<IdKey, <<"q">> >>, <<StyleKey, <<"a", ":", "b">> >>, <<TypeKey, <<>> >>,
         <<ClassKey, <<"x">> >> >>,
      << <<InnerKey, <<"x">> >> >>,
      << <<ClassKey, <<>> >>, <<StyleKey, <<>> >> >> }

TextNodes == {text_node(<<"a">>), text_node(<<"b", " ">>)}

\* childless nodes; <x> is a name no type is registered for
LeafNodes ==
    TextNodes \cup
    { element_node(name, attributes, <<>>) :
        name \in {<<"t", "h">>, <<"x">>},
        attributes \in {<<>>, << <<ClassKey, <<"x">> >> >>} }

ChildNodes ==
    LeafNodes \cup {element_node(<<"t", "h">>, <<>>, <<t>>) : t \in TextNodes}

NodeInputs(n) ==
    TextNodes \cup
    { element_node(name, attributes, children) :
        name \in {<<"t", "d">>, <<"c", "o", "d", "e">>, TextName},
        attributes \in NodeAttrs,
        children \in SeqsUpTo(ChildNodes, n) }

\* styles, classes and props of the symbol inputs
Decorations ==
    { [styles |-> <<>>, classes |-> <<>>, props |-> <<>>],
      [styles |-> <<>>, classes |-> <<<<"x">>, <<"y">>>>, props |-> <<>>],
      [styles |-> << <<<<"a">>, <<"b">>>> >>, classes |-> <<>>, props |-> <<>>],
      [styles |-> <<>>, classes |-> <<>>, props |-> << <<IdKey, <<"q">>>> >>],
      [styles |-> << <<<<"a">>, <<"b">>>>, <<<<"c">>, <<"d">>>> >>, classes |-> <<<<"x">>>>,
       props |-> <<>>],
      [styles |-> <<>>, classes |-> <<<<"x">>>>,
       props |-> << <<IdKey, <<"q">>>>, <<TypeKey, <<>>>> >>],
      [styles |-> <<>>, classes |-> <<>>, props |-> << <<LanguageKey, <<"a">>>> >>] }

TextSymbols == {Text(<<"a">>), Text(<<>>), Text(<<"h", "i", " ">>)}

ChildSymbols ==
    TextSymbols
    \cup {Symbol(cls, <<>>, <<>>, <<>>, <<>>) : cls \in {"Th", "Code"}}
    \cup {Symbol("Th", <<>>, <<>>, <<t>>, <<>>) : t \in TextSymbols}
    \cup {Symbol("Code", <<>>, <<>>, <<Text(<<"a">>)>>, <<>>)}

SymbolInputs(n) ==
    TextSymbols \cup
    { Symbol(cls, d.styles, d.classes, children, d.props) :
        cls \in {"Td", "Code"}, d \in Decorations, children \in SeqsUpTo(ChildSymbols, n) }

\* the texts of table cells
CellTexts == {<<"a">>, <<"b", "b">>}

\* a row of cells holding one text each
Row(cell, texts) ==
    Symbol("Tr", <<>>, <<>>,
           [k \in 1..Len(texts) |-> Symbol(cell, <<>>, <<>>, <<Text(texts[k])>>, <<>>)], <<>>)

\* the rows of a tbody: up to n cells
RowInputs(n) == {Row("Td", texts) : texts \in SeqsUpTo(CellTexts, n)}

\* the rows of a thead: up to n cells, 'a' and 'bb' in turn
HeadInputs(n) ==
    {Row("Th", [k \in 1..cells |-> IF k % 2 = 1 THEN <<"a">> ELSE <<"b", "b">>]) : cells \in 0..n}

MaxRows == 2

\* tables as MDParser builds them: a thead of at most one row and a tbody
TableInputs(n) ==
    { Symbol("Table", <<>>, <<>>,
             <<Symbol("THead", <<>>, <<>>, head, <<>>), Symbol("TBody", <<>>, <<>>, body, <<>>)>>,
             <<>>) :
        head \in SeqsUpTo(HeadInputs(n), 1), body \in SeqsUpTo(RowInputs(n), MaxRows) }

\* the table of '|a|bb|', '|-|-|', '|1|22|'
ExampleTable ==
    LET cell(cls, text) == Symbol(cls, <<>>, <<>>, <<Text(text)>>, <<>>)
    IN  Symbol("Table", <<>>, <<>>,
               <<Symbol("THead", <<>>, <<>>,
                        <<Symbol("Tr", <<>>, <<>>, <<cell("Th", <<"a">>), cell("Th", <<"b", "b">>)>>,
                                 <<>>)>>, <<>>),
                 Symbol("TBody", <<>>, <<>>,
                        <<Symbol("Tr", <<>>, <<>>, <<cell("Td", <<"1">>), cell("Td", <<"2", "2">>)>>,
                                 <<>>)>>, <<>>)>>, <<>>)

\* tables with other shapes of sections and cells
OtherTables ==
    LET cell(cls, texts) == Symbol(cls, <<>>, <<>>, Map(Text, texts), <<>>)
        row(cls, cells) == Symbol("Tr", <<>>, <<>>, [k \in 1..Len(cells) |-> cell(cls, cells[k])], <<>>)
        thead(rows) == Symbol("THead", <<>>, <<>>, [k \in 1..Len(rows) |-> row("Th", rows[k])], <<>>)
        tbody(rows) == Symbol("TBody", <<>>, <<>>, [k \in 1..Len(rows) |-> row("Td", rows[k])], <<>>)
        table(sections) == Symbol("Table", <<>>, <<>>, sections, <<>>)
        a == <<<<"a">>>>
        bb == <<<<"b", "b">>>>
    IN  { table(<<>>),
          table(<<tbody(<< <<a, bb>> >>)>>),
          table(<<tbody(<< <<a>> >>), tbody(<< <<bb>> >>)>>),
          table(<<thead(<< <<a>>, <<bb>> >>), tbody(<< <<a>> >>)>>),
          table(<<tbody(<< <<bb>> >>), thead(<< <<a>> >>)>>),
          table(<<thead(<< <<a>> >>), thead(<< <<bb>> >>)>>),
          table(<<thead(<< <<<<<<"a">>, <<"b">>>>, <<>>>> >>), tbody(<< <<<<>>, bb>> >>)>>),
          table(<<row("Td", <<a>>)>>),
          table(<<thead(<< <<a>> >>), Symbol("Title", <<>>, <<>>, <<>>, <<>>)>>),
          table(<<tbody(<< <<a>> >>),
                  Symbol("TBody", <<>>, <<>>,
                         <<Symbol("Tr", <<>>, <<>>,
                                  <<Symbol("Input", <<>>, <<>>, <<Text(<<"a">>)>>,
                                           << <<TypeKey, Checkbox>> >>)>>, <<>>)>>, <<>>)>>) }

\* inputs: checkboxes and others, checked or not, with and without a label
InputSymbols ==
    { Symbol("Input", <<>>, <<>>, children, props) :
        children \in {<<>>, <<Text(<<"d", "o", "n", "e">>)>>, <<Text(<<"a">>), Text(<<"b">>)>>},
        props \in { <<>>,
                    << <<TypeKey, Checkbox>> >>,
                    << <<TypeKey, Checkbox>>, <<CheckedKey, <<"c", "h", "e", "c", "k", "e", "d">>>> >>,
                    << <<TypeKey, Checkbox>>, <<CheckedKey, <<>>>> >>,
                    << <<CheckedKey, <<"c", "h", "e", "c", "k", "e", "d">>>> >>,
                    << <<TypeKey, <<"t", "e", "x", "t">>>> >>,
                    << <<TypeKey, <<"t", "e", "x", "t">>>>, <<CheckedKey, <<"1">>>> >> } }

\* titles with no child, one child and two, text and not
TitleSymbols ==
    { Symbol("Title", <<>>, <<>>, children, <<>>) :
        children \in SeqsUpTo({Text(<<"a">>), Text(<<>>), Symbol("Td", <<>>, <<>>, <<>>, <<>>),
                               Symbol("Td", <<>>, <<>>, <<Text(<<"a">>)>>, <<>>)}, 2) }

\* the texts of code: one line, two lines, a backtick, blanks around
CodeTexts ==
    {Text(<<"x">>), Text(<<"a", "\n", "b">>), Text(<<"x", Backtick>>), Text(<<" ", "y", "\n">>)}

\* code elements of Text children, with and without a language
CodeSymbols(n) ==
    { Symbol("Code", <<>>, <<>>, children, props) :
        children \in SeqsUpTo(CodeTexts, n),
        props \in { <<>>, << <<LanguageKey, <<"p", "y">>>> >>, << <<LanguageKey, <<>>>> >> } }

\* the symbols rendered to Markdown and to reStructuredText
MarkupInputs(n) ==
    TableInputs(n) \cup {ExampleTable} \cup OtherTables \cup InputSymbols \cup TitleSymbols
    \cup CodeSymbols(n)

\* subject.to_html()
ToHtml ==
    /\ subject.kind = "symbol"
    /\ outcome.op = ""
    /\ outcome' = [op |-> "to_html", err |-> "", value |-> to_html_default(subject.value)]
    /\ UNCHANGED <<hvars, mvars, cvars, subject, sym_parent, sym_children, sym_prepared, threads, dicts>>

\* cls.parse(text) for the type cls the name of the node resolves to, as
\* from_html and handle_element call it
Parse ==
    /\ subject.kind = "node"
    /\ outcome.op = ""
    /\ find_symbol(symbols, subject.value.name, TRUE).err = ""
    /\ outcome' = [op |-> "parse",
                   text |-> parsed_text(symbols, find_symbol(symbols, subject.value.name, TRUE).value,
                                        subject.value)] @@
                  Symbol_parse(symbols, find_symbol(symbols, subject.value.name, TRUE).value,
                        subject.value)
    /\ UNCHANGED <<hvars, mvars, cvars, subject, sym_parent, sym_children, sym_prepared, threads, dicts>>

\* cls.parse(text) a second time on the same node, which is by then what the
\* first call left of it
ParseAgain ==
    /\ subject.kind = "node"
    /\ outcome.op = "parse"
    /\ outcome' = [op |-> "parse again",
                   first |-> [err |-> outcome.err, value |-> outcome.value],
                   text |-> parsed_text(symbols, find_symbol(symbols, subject.value.name, TRUE).value,
                                        outcome.text)] @@
                  Symbol_parse(symbols, find_symbol(symbols, subject.value.name, TRUE).value,
                        outcome.text)
    /\ UNCHANGED <<hvars, mvars, cvars, subject, sym_parent, sym_children, sym_prepared, threads, dicts>>

\* subject.to_md()
ToMd ==
    /\ subject.kind = "markup"
    /\ outcome.op = ""
    /\ outcome' = [op |-> "to_md"] @@ to_md(subject.value)
    /\ UNCHANGED <<hvars, mvars, cvars, subject, sym_parent, sym_children, sym_prepared, threads, dicts>>

\* subject.to_rst()
ToRst ==
    /\ subject.kind = "markup"
    /\ outcome.op = ""
    /\ outcome' = [op |-> "to_rst"] @@ to_rst(subject.value)
    /\ UNCHANGED <<hvars, mvars, cvars, subject, sym_parent, sym_children, sym_prepared, threads, dicts>>

EInit ==
    /\ HTMLIdle
    /\ MDIdle
    /\ symbols = Registry
    /\ found = NoCall
    /\ \/ subject \in {[kind |-> "node", value |-> node] : node \in NodeInputs(MaxChildren)}
       \/ subject \in {[kind |-> "symbol", value |-> sym] : sym \in SymbolInputs(MaxChildren)}
       \/ subject \in {[kind |-> "markup", value |-> sym] : sym \in MarkupInputs(MaxChildren)}
    /\ outcome = NoOutcome
    /\ sym_parent = [o \in Objects |-> None]
    /\ sym_children = [o \in Objects |-> <<>>]
    /\ sym_prepared = [o \in Objects |-> FALSE]
    /\ threads = NoThreads
    /\ dicts = NoDicts

ENext ==
    \/ Parse
    \/ ParseAgain
    \/ ToHtml
    \/ ToMd
    \/ ToRst

ESpec == EInit /\ [][ENext]_vars

----------------------------------------------------------------------------
(* Symbol.from_html as steps: the call hands the text to HTMLParser.parse, *)
(* whose loop runs as above, and the return resolves the nodes it built.   *)

\* html texts handed to from_html as they are
HtmlTexts ==
    { <<"h", "e", "l", "l", "o">>,
      <<"<", "t", "d", ">", "a", "<", "/", "t", "d", ">", "t", "a", "i", "l">>,
      <<"<", "t", "d", ">", "a", "<", "t", "h", ">", "b", "<", "/", "t", "h", ">", "<", "/", "t",
        "d", ">">>,
      <<"<", "t", "d", " ", "i", "d", " ", "=", " ", "'", "q", "'", " ", "a", "=", "b", "/", ">",
        "<", "!", "x", ">">> }

\* no Code among the symbol and its descendants: all are rendered by
\* Symbol.to_html and Text.to_html
RECURSIVE DefaultRendered(_)
DefaultRendered(sym) ==
    /\ ~html_of(sym.cls).custom
    /\ \A k \in 1..Len(sym.children) : DefaultRendered(sym.children[k])

\* cls.html_parser.parse(text): reset, then the loop
from_html_call ==
    /\ pc = "idle"
    /\ \/ subject.kind = "html" /\ html' = subject.value
       \/ subject.kind = "symbol" /\ outcome.op = "to_html" /\ html' = outcome.value
    /\ source' = <<Raw(html')>>
    /\ pc' = "loop"
    /\ UNCHANGED <<mvars, cvars, svars, i, state, buffer, attr_name, current_tag, dom, tag_stack,
                   nodes, self_closed, steps>>

\* the comprehension of from_html over the nodes parse returned
from_html_return ==
    /\ pc = "done"
    /\ outcome.op # "from_html"
    /\ outcome' = [op |-> "from_html"] @@ from_html(symbols, Result, <<>>)
    /\ UNCHANGED <<hvars, mvars, cvars, subject, sym_parent, sym_children, sym_prepared, threads, dicts>>

RInit ==
    /\ HTMLIdle
    /\ MDIdle
    /\ symbols = Registry
    /\ found = NoCall
    /\ \/ subject \in {[kind |-> "html", value |-> text] : text \in HtmlTexts}
       \/ subject \in {[kind |-> "symbol", value |-> sym] :
                         sym \in {s \in SymbolInputs(MaxChildren) : DefaultRendered(s)}}
    /\ outcome = NoOutcome
    /\ sym_parent = [o \in Objects |-> None]
    /\ sym_children = [o \in Objects |-> <<>>]
    /\ sym_prepared = [o \in Objects |-> FALSE]
    /\ threads = NoThreads
    /\ dicts = NoDicts

RNext ==
    \/ ToHtml
    \/ from_html_call
    \/ Next
    \/ from_html_return

RSpec == RInit /\ [][RNext]_vars

----------------------------------------------------------------------------
(* Threads calling Symbol.from_html.  Symbol.html_parser is one HTMLParser  *)
(* shared by every caller (a class attribute); html and i are locals of    *)
(* parse, one pair for each thread.  html, i and pc are those of the       *)
(* thread that runs; the scheduler may hand over between any two steps.    *)
(* A step is at least one iteration of the loop of parse, which is coarser *)
(* than the interpreter's switching between bytecodes: every interleaving  *)
(* here is one the program has.                                            *)

\* preemptions of a call in progress in one behaviour
MaxPreemptions == 2

Threads == {1, 2}

\* a document of one element holding a text
Document(name, text) ==
    <<"<">> \o name \o <<">">> \o text \o <<"<", "/">> \o name \o <<">">>

\* <td a ="b" c='d' e=f><!- : an element with attributes of every form, and
\* the start of a comment
AttributeDocument ==
    <<"<", "t", "d", " ", "a", " ", "=", "\"", "b", "\"", " ", "c", "=", "'", "d", "'", " ",
      "e", "=", "f", ">", "<", "!", "-">>

ThreadInputs ==
    {Document(name, text) : name \in {<<"t", "d">>, <<"t", "h">>}, text \in {<<"a">>, <<"b">>}}
    \cup {AttributeDocument}

Running == threads.running

\* cls.html_parser.parse(text) entered: self.reset(), i = 0
thread_call ==
    /\ Running \in Threads
    /\ pc = "idle"
    /\ threads.results[Running].op = ""
    /\ html' = threads.inputs[Running]
    /\ source' = <<Raw(html')>>
    /\ i' = 0
    /\ current_tag' = None
    /\ dom' = <<>>
    /\ state' = "TEXT"
    /\ buffer' = <<>>
    /\ attr_name' = <<>>
    /\ tag_stack' = <<>>
    /\ pc' = "loop"
    /\ UNCHANGED <<mvars, cvars, svars, nodes, self_closed, steps>>

\* parse has returned self.dom: the comprehension of from_html over it, as
\* the list is at the return
thread_return ==
    /\ Running \in Threads
    /\ pc \in {"done", "raised"}
    /\ threads' = [threads EXCEPT !.results[Running] =
                      [op |-> "from_html"] @@
                      (IF pc = "raised" THEN Raised("IndexError")
                       ELSE from_html(symbols, Result, <<>>))]
    /\ pc' = "returned"
    /\ UNCHANGED <<mvars, cvars, subject, outcome, sym_parent, sym_children, sym_prepared, dicts,
                   source, html, i, state, buffer, attr_name, current_tag, dom, tag_stack,
                   nodes, self_closed, steps>>

\* the scheduler hands over to the other thread, which has not returned
thread_switch ==
    /\ Running \in Threads
    /\ threads.results[3 - Running].op = ""
    /\ pc \in {"loop", "done", "raised"} => threads.preemptions < MaxPreemptions
    /\ threads' = [threads EXCEPT
                      !.running = 3 - Running,
                      !.waiting = [html |-> html, i |-> i, pc |-> pc],
                      !.preemptions = IF pc \in {"loop", "done", "raised"} THEN @ + 1 ELSE @]
    /\ html' = threads.waiting.html
    /\ source' = <<Raw(html')>>
    /\ i' = threads.waiting.i
    /\ pc' = threads.waiting.pc
    /\ UNCHANGED <<mvars, cvars, subject, outcome, sym_parent, sym_children, sym_prepared, dicts,
                   state, buffer, attr_name, current_tag, dom, tag_stack, nodes, self_closed,
                   steps>>

ThreadInit ==
    /\ HTMLIdle
    /\ MDIdle
    /\ symbols = Registry
    /\ found = NoCall
    /\ subject = NoSubject
    /\ outcome = NoOutcome
    /\ sym_parent = [o \in Objects |-> None]
    /\ sym_children = [o \in Objects |-> <<>>]
    /\ sym_prepared = [o \in Objects |-> FALSE]
    /\ dicts = NoDicts
    /\ threads \in {[running |-> 1, inputs |-> <<a, b>>, waiting |-> NoLocals,
                     results |-> <<NoOutcome, NoOutcome>>, preemptions |-> 0] :
                       a \in ThreadInputs, b \in ThreadInputs}

ThreadNext ==
    \/ thread_call
    \/ Next
    \/ thread_return
    \/ thread_switch

ThreadSpec == ThreadInit /\ [][ThreadNext]_vars

----------------------------------------------------------------------------
(* The tree operations of Symbol on symbol objects: set_parent,           *)
(* change_parent, add_child, remove_child, replace_child and prepare.      *)
(* Objects stands for symbols made by Symbol(), in the order they were     *)
(* made:                                                                   *)
(* parentless, childless, not prepared.  A symbol is put below symbols     *)
(* made before it only, so the structures are those without a cycle, on    *)
(* which prepare returns.                                                  *)

\* the number of entries of all children lists together
RECURSIVE Entries(_, _)
Entries(ch, S) ==
    IF S = {} THEN 0
    ELSE LET o == CHOOSE x \in S : TRUE IN Len(ch[o]) + Entries(ch, S \ {o})

\* list.remove(x): the list without the first occurrence of x
list_remove(s, x) ==
    LET k == CHOOSE j \in 1..Len(s) : s[j] = x /\ \A m \in 1..(j - 1) : s[m] # x
    IN  SubSeq(s, 1, k - 1) \o SubSeq(s, k + 1, Len(s))

\* the outcome of a call; the arguments are kept for prepare alone
Called(op, err) == [op |-> op, self |-> None, arg |-> None, err |-> err, value |-> None]

\* self.add_child(symbol)
add_child ==
    \E self \in Objects, symbol \in Objects :
        /\ self < symbol
        /\ outcome.op # "prepare"
        /\ Entries(sym_children, Objects) < MaxChildren
        /\ sym_children' = [sym_children EXCEPT ![self] = Append(@, symbol)]
        /\ outcome' = Called("add_child", "")
        /\ UNCHANGED <<hvars, mvars, cvars, subject, sym_parent, sym_prepared, threads, dicts>>

\* self.remove_child(symbol): ValueError when symbol is no child of self
remove_child ==
    \E self \in Objects, symbol \in Objects :
        /\ self < symbol
        /\ outcome.op # "prepare"
        /\ IF symbol \in Range(sym_children[self])
           THEN /\ sym_children' = [sym_children EXCEPT ![self] = list_remove(@, symbol)]
                /\ outcome' = Called("remove_child", "")
           ELSE /\ outcome' = Called("remove_child", "ValueError")
                /\ UNCHANGED sym_children
        /\ UNCHANGED <<hvars, mvars, cvars, subject, sym_parent, sym_prepared, threads, dicts>>

\* self.set_parent(parent): self.parent = parent, then parent.add_child(self)
set_parent ==
    \E self \in Objects, parent \in Objects :
        /\ parent < self
        /\ outcome.op # "prepare"
        /\ Entries(sym_children, Objects) < MaxChildren
        /\ sym_parent' = [sym_parent EXCEPT ![self] = parent]
        /\ sym_children' = [sym_children EXCEPT ![parent] = Append(@, self)]
        /\ outcome' = Called("set_parent", "")
        /\ UNCHANGED <<hvars, mvars, cvars, subject, sym_prepared, threads, dicts>>

\* the children lists after self.change_parent(new_parent): set_parent
\* appends self to new_parent's list, and self.parent.remove_child(self),
\* self.parent being new_parent by then, takes its first occurrence out of
\* that same list
change_parent_children(ch, self, old_parent, new_parent) ==
    [ch EXCEPT ![new_parent] = list_remove(Append(@, self), self)]

\* self.change_parent(new_parent)
change_parent ==
    \E self \in Objects, new_parent \in Objects :
        /\ new_parent < self
        /\ outcome.op # "prepare"
        /\ sym_parent' = [sym_parent EXCEPT ![self] = new_parent]
        /\ sym_children' = change_parent_children(sym_children, self, sym_parent[self], new_parent)
        /\ outcome' = Called("change_parent", "")
        /\ UNCHANGED <<hvars, mvars, cvars, subject, sym_prepared, threads, dicts>>

\* list.index(x), 0-based
list_index(s, x) == (CHOOSE j \in 1..Len(s) : s[j] = x /\ \A m \in 1..(j - 1) : s[m] # x) - 1

\* s[k] = x of Python for a 0-based k that may be negative: the list
\* afterwards, and IndexError when k is out of range
list_setitem(s, k, x) ==
    LET at == IF k < 0 THEN Len(s) + k + 1 ELSE k + 1
    IN  IF at \in 1..Len(s) THEN [err |-> "", list |-> [s EXCEPT ![at] = x]]
        ELSE [err |-> "IndexError", list |-> s]

\* self.replace_child(old, new) on self.children: i = index(old), which
\* raises ValueError when old is no child; remove(old); children[i-1] = new
replace_child_list(children, old, new) ==
    IF old \notin Range(children) THEN [err |-> "ValueError", list |-> children]
    ELSE list_setitem(list_remove(children, old), list_index(children, old) - 1, new)

\* self.replace_child(old, new)
replace_child ==
    \E self \in Objects, old \in Objects, new \in Objects :
        /\ self < old /\ self < new
        /\ outcome.op # "prepare"
        /\ sym_children' = [sym_children EXCEPT ![self] = replace_child_list(@, old, new).list]
        /\ outcome' = [op |-> "replace_child", self |-> self, arg |-> old, value |-> new,
                       err |-> replace_child_list(sym_children[self], old, new).err]
        /\ UNCHANGED <<hvars, mvars, cvars, subject, sym_parent, sym_prepared, threads, dicts>>

\* prepare that stamps self and leaves the children alone
RECURSIVE prepare(_, _, _, _), prepare_children(_, _, _, _)
prepare_shallow(ch, st, self, parent) ==
    [parent |-> [st.parent EXCEPT ![self] = parent],
     prepared |-> [st.prepared EXCEPT ![self] = TRUE]]

\* self.prepare(parent) on the fields st = [parent, prepared] of the objects;
\* prepare_children is its loop over self.children
prepare(ch, st, self, parent) ==
    prepare_children(ch,
                     [parent |-> [st.parent EXCEPT ![self] = parent],
                      prepared |-> [st.prepared EXCEPT ![self] = TRUE]],
                     self, ch[self])

prepare_children(ch, st, self, rest) ==
    IF rest = <<>> THEN st
    ELSE prepare_children(ch, prepare(ch, st, Head(rest), self), self, Tail(rest))

\* root.prepare(parent); no call is followed after it
Prepare ==
    \E root \in Objects, parent \in Objects \cup {None} :
        /\ outcome.op # "prepare"
        /\ LET st == prepare(sym_children, [parent |-> sym_parent, prepared |-> sym_prepared],
                             root, parent)
           IN  /\ sym_parent' = st.parent
               /\ sym_prepared' = st.prepared
        /\ outcome' = [op |-> "prepare", self |-> root, arg |-> parent, err |-> "", value |-> root]
        /\ UNCHANGED <<hvars, mvars, cvars, subject, sym_children, threads, dicts>>

TInit ==
    /\ HTMLIdle
    /\ MDIdle
    /\ CIdle
    /\ SIdle

TNext ==
    \/ add_child
    \/ remove_child
    \/ set_parent
    \/ change_parent
    \/ replace_child
    \/ Prepare

TSpec == TInit /\ [][TNext]_vars

----------------------------------------------------------------------------
(* Symbol() and Symbol.copy on the dict objects that hold styles.  A       *)
(* default argument of Python is one object, made when the function is     *)
(* defined: dicts.store holds the dict objects, the default `styles` of    *)
(* __init__ first and the default `styles` of copy second, then the dicts  *)
(* that callers passed; dicts.styles[s] is the place in the store of the   *)
(* dict that symbol s has as its styles.                                   *)

MaxCopies == 4      \* most symbols made by Symbol() and copy together

DefaultOfInit == 1
DefaultOfCopy == 2

\* the dicts a caller writes out as the styles argument
StyleDicts ==
    { <<>>,
      << <<<<"a">>, <<"b">>>> >>,
      << <<<<"a">>, <<"c">>>> >>,
      << <<<<"c">>, <<"d">>>> >> }

\* the styles argument of a call: left out, a dict written out in the call,
\* or the styles of a symbol made before
Givens(made) ==
    {[kind |-> "default", value |-> <<>>, symbol |-> None]}
    \cup {[kind |-> "dict", value |-> d, symbol |-> None] : d \in StyleDicts}
    \cup {[kind |-> "styles of", value |-> <<>>, symbol |-> t] : t \in 1..made}

\* the store with the argument in it, and the place of the dict that the
\* parameter `styles` is bound to
Pass(ds, given, default) ==
    CASE given.kind = "default" -> [store |-> ds.store, ref |-> default]
      [] given.kind = "dict" -> [store |-> Append(ds.store, given.value), ref |-> Len(ds.store) + 1]
      [] given.kind = "styles of" -> [store |-> ds.store, ref |-> ds.styles[given.symbol]]

\* d.update(e)
RECURSIVE dict_update(_, _)
dict_update(d, e) ==
    IF e = <<>> THEN d ELSE dict_update(dict_set(d, Head(e)[1], Head(e)[2]), Tail(e))

\* Symbol(styles): self.styles = styles
Symbol_init ==
    \E given \in Givens(Len(dicts.styles)) :
        /\ Len(dicts.styles) < MaxCopies
        /\ LET a == Pass(dicts, given, DefaultOfInit)
           IN  dicts' = [store |-> a.store, styles |-> Append(dicts.styles, a.ref)]
        /\ outcome' = [op |-> "Symbol", self |-> None, arg |-> given,
                       value |-> Len(dicts.styles) + 1, err |-> ""]
        /\ UNCHANGED <<hvars, mvars, cvars, subject, sym_parent, sym_children, sym_prepared, threads>>

\* self.copy(styles) on the dicts: styles.update(self.styles), then
\* Symbol(styles, classes, inner = inner), whose styles is that same dict
copy(ds, self, given) ==
    LET a == Pass(ds, given, DefaultOfCopy)
    IN  [store |-> [a.store EXCEPT ![a.ref] = dict_update(@, a.store[ds.styles[self]])],
         styles |-> Append(ds.styles, a.ref)]

\* self.copy(styles)
Symbol_copy ==
    \E self \in 1..Len(dicts.styles), given \in Givens(Len(dicts.styles)) :
        /\ Len(dicts.styles) < MaxCopies
        /\ dicts' = copy(dicts, self, given)
        /\ outcome' = [op |-> "copy", self |-> self, arg |-> given,
                       value |-> Len(dicts.styles) + 1, err |-> ""]
        /\ UNCHANGED <<hvars, mvars, cvars, subject, sym_parent, sym_children, sym_prepared, threads>>

CopyInit ==
    /\ HTMLIdle
    /\ MDIdle
    /\ CIdle
    /\ subject = NoSubject
    /\ outcome = NoOutcome
    /\ sym_parent = [o \in Objects |-> None]
    /\ sym_children = [o \in Objects |-> <<>>]
    /\ sym_prepared = [o \in Objects |-> FALSE]
    /\ threads = NoThreads
    /\ dicts = [store |-> <<<<>>, <<>>>>, styles |-> <<>>]

CopyNext ==
    \/ Symbol_init
    \/ Symbol_copy

CopySpec == CopyInit /\ [][CopyNext]_vars

----------------------------------------------------------------------------
(* Properties of HTMLParser *)

Top == Last(tag_stack)
NewNode == Len(nodes) + 1

\* x became the last child of the innermost open element, or the last
\* top-level node when no element is open; no other node than x changed
AttachedLast(x) ==
    /\ Len(nodes') >= Len(nodes)
    /\ IF Len(tag_stack) > 0
       THEN /\ nodes'[Top] = [nodes[Top] EXCEPT !.children = Append(@, x)]
            /\ \A m \in 1..Len(nodes) : m \notin {Top, x} => nodes'[m] = nodes[m]
            /\ dom' = dom
       ELSE /\ dom' = Append(dom, x)
            /\ \A m \in 1..Len(nodes) : m # x => nodes'[m] = nodes[m]

\* this step reads the '>' that ends a closing tag
ClosingTagEnds == InLoop("CLOSING_TAG") /\ char = ">"

\* C1: when '>' ends a closing tag, tag_stack is popped exactly once iff it is
\* non-empty and its top element's name equals the closing tag's name; in every
\* other case tag_stack and the DOM are unchanged.  For <div><span>text</div>
\* span stays on the stack and text is a child of span inside div.
C1_ClosingTagRule ==
    /\ [][ClosingTagEnds =>
            /\ nodes' = nodes
            /\ dom' = dom
            /\ IF Len(tag_stack) > 0 /\ nodes[Top].name = buffer
               THEN tag_stack' = Front(tag_stack)
               ELSE tag_stack' = tag_stack]_hvars
    /\ [](source = MismatchedClose /\ pc = "done" =>
            /\ Len(tag_stack) = 2
            /\ nodes[tag_stack[2]].name = Span
            /\ Result = <<[new_element(Div) EXCEPT !.children =
                             <<[new_element(Span) EXCEPT !.children =
                                  <<text_node(<<"t", "e", "x", "t">>)>>]>>]>>)

\* a closing tag that names a deeper stack entry only has been read and ignored
C1_Witness ==
    /\ source = MismatchedClose
    /\ pc = "done"
    /\ Len(tag_stack) = 2
    /\ nodes[tag_stack[1]].name = Div

OpeningTagStates ==
    {"TAG_NAME", "BEFORE_ATTRIBUTE_NAME", "ATTRIBUTE_NAME", "AFTER_ATTRIBUTE_NAME",
     "BEFORE_ATTRIBUTE_VALUE", "ATTRIBUTE_VALUE_UNQUOTED", "AFTER_ATTRIBUTE_VALUE_QUOTED"}

\* this step reads the '>' of an opening tag / the '>' of a self-closing tag
OpeningTagEnds == pc = "loop" /\ i < Len(html) /\ state \in OpeningTagStates /\ char = ">"
SelfClosingTagEnds == InLoop("SELF_CLOSING_TAG") /\ char = ">"

\* C3: at the '>' of an opening tag the new element becomes the last child of
\* the innermost open element (or the last top-level node) and is pushed on
\* tag_stack; at the '>' of a self-closing tag it is attached the same way and
\* tag_stack is unchanged, so a self-closing element is never on tag_stack and
\* never has children.
C3_AttachmentRule ==
    /\ [][OpeningTagEnds =>
            /\ current_tag' # None
            /\ AttachedLast(current_tag')
            /\ tag_stack' = Append(tag_stack, current_tag')]_hvars
    /\ [][SelfClosingTagEnds =>
            /\ AttachedLast(current_tag)
            /\ tag_stack' = tag_stack]_hvars
    /\ [](\A n \in self_closed :
            /\ n \notin Range(tag_stack)
            /\ nodes[n].children = <<>>)

\* a self-closing tag was attached inside an open element, and text followed it
C3_Witness ==
    /\ pc = "done"
    /\ \E n \in self_closed : \E m \in Range(tag_stack) :
          /\ Len(nodes[m].children) >= 2
          /\ nodes[m].children[1] = n

\* this step flushes the text buffer: '<' read in state TEXT, or the end of input
TextFlushes ==
    \/ InLoop("TEXT") /\ char = "<"
    \/ pc = "loop" /\ i >= Len(html) /\ state = "TEXT"

\* C4: when '<' is read in state TEXT or the input ends in state TEXT, a
\* buffer with a non-whitespace character becomes exactly one Text node with
\* the buffered characters unchanged, attached last to the innermost open
\* element or the top level; an empty or all-whitespace buffer emits nothing.
\* No Text node has blank content.
C4_TextFlushing ==
    /\ [][TextFlushes =>
            IF strip_nonempty(buffer)
            THEN /\ Len(nodes') = NewNode
                 /\ nodes'[NewNode] = text_node(buffer)
                 /\ AttachedLast(NewNode)
                 /\ tag_stack' = tag_stack
            ELSE nodes' = nodes /\ dom' = dom /\ tag_stack' = tag_stack]_hvars
    /\ [](\A n \in 1..Len(nodes) :
            nodes[n].type = "text" => strip_nonempty(nodes[n].content))

\* a text run with surrounding whitespace was emitted unchanged inside an
\* element, and a blank run was dropped
C4_Witness ==
    /\ pc = "done"
    /\ source = HiThere
    /\ \E n \in 1..Len(nodes) :
          nodes[n].type = "text" /\ nodes[n].content = <<"h", "i", " ">>

TagStates ==
    {"BEFORE_ATTRIBUTE_NAME", "ATTRIBUTE_NAME", "AFTER_ATTRIBUTE_NAME",
     "BEFORE_ATTRIBUTE_VALUE", "ATTRIBUTE_VALUE_DOUBLE_QUOTED",
     "ATTRIBUTE_VALUE_SINGLE_QUOTED", "ATTRIBUTE_VALUE_UNQUOTED",
     "AFTER_ATTRIBUTE_VALUE_QUOTED", "SELF_CLOSING_TAG"}

\* every index below is a node of the heap, and so is every child, recursively
IsNodeList(ids) ==
    /\ \A k \in 1..Len(ids) : ids[k] \in 1..Len(nodes)
    /\ \A n \in 1..Len(nodes) :
          nodes[n].type = "element" =>
             \A k \in 1..Len(nodes[n].children) : nodes[n].children[k] \in 1..Len(nodes)

\* C5: parse never raises; in every state that uses current_tag it is not
\* None; what parse returns is a list of nodes.
C5_NeverRaises ==
    /\ pc # "raised"
    /\ state \in TagStates => current_tag # None
    /\ None \notin Range(tag_stack)
    /\ pc = "done" => IsNodeList(dom)

\* the input ended inside an unterminated quoted attribute value
C5_Witness ==
    /\ pc = "done"
    /\ state = "ATTRIBUTE_VALUE_DOUBLE_QUOTED"
    /\ buffer # <<>>

\* this step is the 'reconsider this character' branch
Reconsiders ==
    /\ InLoop("AFTER_ATTRIBUTE_VALUE_QUOTED")
    /\ ~isspace(char) /\ char # "/" /\ char # ">"

\* C6: no loop iteration ends with a lower index than it started with; the
\* only iteration that does not advance is the reconsider branch, which leaves
\* the parser in a state whose every branch advances, so it is taken at most
\* once per character; the loop runs at most 2 * len(html) iterations.
C6_SinglePass ==
    /\ [][i' >= i]_hvars
    /\ [][steps' # steps /\ i' = i => Reconsiders /\ state' = "BEFORE_ATTRIBUTE_NAME"]_hvars
    /\ [][steps' # steps /\ state = "BEFORE_ATTRIBUTE_NAME" => i' = i + 1]_hvars
    /\ [](steps <= 2 * i /\ i <= Len(html))
    /\ [](pc = "loop" => ENABLED Next)

\* the reconsider branch was taken and the parse went on to return
C6_Witness ==
    /\ pc = "done"
    /\ steps > Len(html)

----------------------------------------------------------------------------
(* Well-nested inputs and the forest their tag nesting describes *)

\* open tags minus closing tags among the first k pieces
RECURSIVE Depth(_, _)
Depth(ps, k) ==
    IF k = 0 THEN 0
    ELSE Depth(ps, k - 1) + (CASE ps[k].kind = "open"  -> 1
                               [] ps[k].kind = "close" -> -1
                               [] OTHER -> 0)

\* the closing tag of the opening tag at position o: the first later
\* position where the depth is back to what it was before o
MatchingClose(ps, o) ==
    CHOOSE m \in (o + 1)..Len(ps) :
        /\ Depth(ps, m) = Depth(ps, o - 1)
        /\ \A k \in (o + 1)..(m - 1) : Depth(ps, k) > Depth(ps, o - 1)

\* text, opening, self-closing and closing tags, each closing tag closing the
\* most recently opened unclosed tag, of the identical name
WellNested(ps) ==
    /\ \A k \in 1..Len(ps) : ps[k].kind \in {"text", "open", "selfclose", "close"}
    /\ \A k \in 1..Len(ps) : Depth(ps, k) >= 0
    /\ Depth(ps, Len(ps)) = 0
    /\ \A o \in 1..Len(ps) :
          ps[o].kind = "open" => ps[MatchingClose(ps, o)].name = ps[o].name

\* adjacent text pieces are one text run
RECURSIVE Runs(_)
Runs(ps) ==
    IF Len(ps) < 2 THEN ps
    ELSE IF ps[1].kind = "text" /\ ps[2].kind = "text"
         THEN Runs(<<Txt(ps[1].text \o ps[2].text)>> \o SubSeq(ps, 3, Len(ps)))
         ELSE <<ps[1]>> \o Runs(Tail(ps))

\* the forest of a well-nested sequence of pieces, names and nesting only;
\* a text run counts when it is not blank (section 4.1 of the specification)
RECURSIVE RefForest(_)
RefForest(ps) ==
    IF ps = <<>> THEN <<>>
    ELSE LET p == Head(ps)
         IN  CASE p.kind = "text" ->
                    (IF strip_nonempty(p.text)
                     THEN <<[type |-> "text", content |-> p.text]>>
                     ELSE <<>>) \o RefForest(Tail(ps))
               [] p.kind = "selfclose" ->
                    <<[type |-> "element", name |-> p.name, children |-> <<>>]>>
                    \o RefForest(Tail(ps))
               [] p.kind = "open" ->
                    LET m == MatchingClose(ps, 1)
                    IN  <<[type |-> "element", name |-> p.name,
                           children |-> RefForest(SubSeq(ps, 2, m - 1))]>>
                        \o RefForest(SubSeq(ps, m + 1, Len(ps)))

\* names and nesting of a parsed tree
RECURSIVE Shape(_)
Shape(t) ==
    IF t.type = "text" THEN [type |-> "text", content |-> t.content]
    ELSE [type |-> "element", name |-> t.name,
          children |-> [k \in 1..Len(t.children) |-> Shape(t.children[k])]]

ResultShape == [k \in 1..Len(dom) |-> Shape(Tree(nodes, dom[k]))]

\* C2: on well-nested input parse returns the forest that mirrors the tag
\* nesting, each element's children being the text runs and elements between
\* its opening and closing tag in document order, and tag_stack ends empty.
C2_WellNestedMirrors ==
    pc = "done" /\ WellNested(source) =>
        /\ ResultShape = RefForest(Runs(source))
        /\ tag_stack = <<>>

\* the value the claim gives an attribute as written
WrittenValue(a) == IF a.form = "bare" THEN <<>> ELSE a.value

DistinctNames(attrs) ==
    \A j, k \in 1..Len(attrs) : attrs[j].name = attrs[k].name => j = k

\* C7: every attribute of an opening or self-closing tag is stored with the
\* characters between the quotes (quoted), the characters after '=' up to the
\* next whitespace or the closing '>' (unquoted), or '' (no '=value').
C7_AttributeValues ==
    pc = "done" /\ source \in AttrInputs(MaxAttrs) /\ DistinctNames(source[1].attrs) =>
        /\ Len(nodes) >= 1
        /\ nodes[1].type = "element"
        /\ \A k \in 1..Len(source[1].attrs) :
              LET a == source[1].attrs[k]
              IN  /\ dict_has(nodes[1].attributes, a.name)
                  /\ dict_get(nodes[1].attributes, a.name) = WrittenValue(a)

----------------------------------------------------------------------------
(* Properties of MDParser *)

\* Lines as the claims speak of them.  parse trims every line before it
\* tests it, so a line is classified by its trimmed text.
HashCount(l) == Span_(l, {"#"})

\* '#'..'######' followed by a space and text
IsHeaderLine(l) ==
    /\ HashCount(l) \in 1..6
    /\ Len(l) > HashCount(l) + 1
    /\ l[HashCount(l) + 1] = " "

\* a plain text line: not blank, no block pattern matches it, and it does
\* not open a fenced block that the rest of the input closes
IsPlainLine(ls, k) ==
    /\ strip(ls[k]) # <<>>
    /\ ~matches_any(strip(ls[k]))
    /\ ~match_code(join(<<"\n">>, Drop(ls, k - 1))).ok

\* the input is made only of header lines, blank lines and plain text lines
SimpleInput ==
    \A k \in 1..Len(lines) :
        strip(lines[k]) = <<>> \/ IsHeaderLine(strip(lines[k])) \/ IsPlainLine(lines, k)

\* the p of a run of plain lines: the trimmed lines joined by newline
RefParagraph(plain) ==
    IF plain = <<>> THEN <<>>
    ELSE <<create_element(<<"p">>, <<>>, <<create_text(strip(join(<<"\n">>, plain)))>>)>>

\* the h element of a header line: the text after the hashes and the space
RefHeader(l) ==
    create_element(Str_h(HashCount(l)), <<>>, <<create_text(Drop(l, HashCount(l) + 1))>>)

\* body's children for a simple input, read off the lines; plain is the run
\* of plain lines that is still open
RECURSIVE RefBlocks(_, _)
RefBlocks(ls, plain) ==
    IF ls = <<>> THEN RefParagraph(plain)
    ELSE IF IsHeaderLine(strip(Head(ls)))
    THEN RefParagraph(plain) \o <<RefHeader(strip(Head(ls)))>> \o RefBlocks(Tail(ls), <<>>)
    ELSE IF strip(Head(ls)) = <<>>
    THEN RefParagraph(plain) \o RefBlocks(Tail(ls), <<>>)
    ELSE RefBlocks(Tail(ls), Append(plain, strip(Head(ls))))

\* C8: whenever parse returns, the value is an element 'html' with exactly
\* two children, 'head' then 'body'; and for an input made only of header
\* lines, blank lines and plain text lines parse does return, and body's
\* children are, in document order, one h{number of #} with a single Text
\* child holding the text after the hashes per header line and one p with a
\* single Text child per maximal run of plain lines, the trimmed lines joined
\* by newline.
C8_HeadersAndParagraphs ==
    /\ md_pc = "done" =>
          /\ MDResult.type = "element"
          /\ MDResult.name = <<"h", "t", "m", "l">>
          /\ Len(MDResult.children) = 2
          /\ MDResult.children[1].name = <<"h", "e", "a", "d">>
          /\ MDResult.children[2].name = <<"b", "o", "d", "y">>
          /\ SimpleInput => MDResult.children[2].children = RefBlocks(lines, <<>>)
    /\ SimpleInput => md_pc # "raised" /\ md_steps <= Len(lines)

\* a returned parse of a simple input with a level-2 header and a paragraph
\* of two lines
C8_Witness ==
    /\ md_pc = "done"
    /\ SimpleInput
    /\ \E k \in 1..Len(md_dom) : md_dom[k].name = Str_h(2)
    /\ \E k \in 1..Len(md_dom) :
          md_dom[k].name = <<"p">> /\ "\n" \in Range(md_dom[k].children[1].content)

\* Item lines: a marker at some indentation, a space and text
IsItemLine(l) == match_ul(l).ok \/ match_ol(l).ok
ItemIndent(l) == IF match_ul(l).ok THEN Len(match_ul(l).g1) ELSE Len(match_ol(l).g1)
ItemText(l) == IF match_ul(l).ok THEN match_ul(l).g2 ELSE match_ol(l).g3
ItemList(l) == IF match_ul(l).ok THEN <<"u", "l">> ELSE <<"o", "l">>

\* the input is one unordered list: item lines with text only, the first at
\* indentation 0, some deeper, and no text at two indentations
NestedListInput ==
    /\ lines # <<>>
    /\ \A k \in 1..Len(lines) : match_ul(lines[k]).ok /\ ItemText(lines[k]) # NoneStr
    /\ ItemIndent(lines[1]) = 0
    /\ \E k \in 1..Len(lines) : ItemIndent(lines[k]) > 0
    /\ \A j, k \in 1..Len(lines) :
          ItemText(lines[j]) = ItemText(lines[k]) => ItemIndent(lines[j]) = ItemIndent(lines[k])

\* the texts of the items at a greater indentation than the first
DeeperTexts == {strip(ItemText(lines[k])) : k \in {j \in 1..Len(lines) : ItemIndent(lines[j]) > 0}}

\* the texts of the li children of a list element
ItemsOf(list) == {list.children[k].children[1].content : k \in 1..Len(list.children)}

\* C9: for a list with item lines at indentation d0 and following item lines
\* at d1 > d0, the list built from the d1 items is a descendant of the d0
\* item it follows: body holds the d0 list alone, and no list among body's
\* children, before or after it, is made of d1 items.
C9_NestedListIsDescendant ==
    md_pc = "done" /\ NestedListInput =>
        /\ Len(md_dom) = 1
        /\ \A k \in 1..Len(md_dom) : ItemsOf(md_dom[k]) \cap DeeperTexts = {}

\* the input is one flat list: item lines of one kind at indentation 0 with
\* text, each followed by any number of unmarked continuation lines
FlatListInput ==
    /\ lines # <<>>
    /\ IsItemLine(lines[1])
    /\ \A k \in 1..Len(lines) :
          \/ /\ IsItemLine(lines[k])
             /\ ItemList(lines[k]) = ItemList(lines[1])
             /\ ItemIndent(lines[k]) = 0
             /\ ItemText(lines[k]) # NoneStr
             /\ strip(ItemText(lines[k])) # <<>>
          \/ IsPlainLine(lines, k) /\ ~matches_any(lines[k])

\* the li elements of a flat list, read off the lines: the text after the
\* marker, continuation lines appended space-joined
RECURSIVE RefItems(_, _)
RefItems(ls, item) ==
    LET li == create_element(<<"l", "i">>, <<>>, <<create_text(strip(join(<<" ">>, item)))>>)
    IN  IF ls = <<>> THEN <<li>>
        ELSE IF IsItemLine(Head(ls)) THEN <<li>> \o RefItems(Tail(ls), <<strip(ItemText(Head(ls)))>>)
        ELSE RefItems(Tail(ls), Append(item, strip(Head(ls))))

\* C10: every item line of a list, unordered or ordered, produces exactly one
\* li in that list, in input order, whose single Text child is the item's
\* text after the marker with the continuation lines appended space-joined.
C10_ListItems ==
    md_pc = "done" /\ FlatListInput =>
        md_dom = <<create_element(ItemList(lines[1]), <<>>,
                                  RefItems(Tail(lines), <<strip(ItemText(lines[1]))>>))>>

\* Table lines as the claims speak of them: a separator line is made of
\* alignment cells only, a row line is pipe-delimited and is no separator
IsSeparatorLine(l) == match_thead(l).ok
IsRowLine(l) == match_tr(l).ok /\ ~match_thead(l).ok

\* the positions of the bars of a line, in order
RECURSIVE BarsFrom(_, _)
BarsFrom(l, k) ==
    IF k > Len(l) THEN <<>>
    ELSE (IF l[k] = "|" THEN <<k>> ELSE <<>>) \o BarsFrom(l, k + 1)

\* the tr of a row line: one cell per two neighbouring bars, holding the
\* trimmed text between them
RefRow(l, cell_type) ==
    create_element(<<"t", "r">>, <<>>,
        [k \in 1..(Len(BarsFrom(l, 1)) - 1) |->
            create_element(cell_type, <<>>,
                <<create_text(strip(SubSeq(l, BarsFrom(l, 1)[k] + 1, BarsFrom(l, 1)[k + 1] - 1)))>>)])

\* how many lines from line k on are row lines, up to the first that is not
RECURSIVE RowRun(_, _)
RowRun(ls, k) == IF k <= Len(ls) /\ IsRowLine(ls[k]) THEN 1 + RowRun(ls, k + 1) ELSE 0

\* the input starts with a table: a row line, a separator line, and row
\* lines up to a line that is no table line, or the end of the input
TableInput ==
    /\ Len(lines) >= 2
    /\ IsRowLine(lines[1])
    /\ IsSeparatorLine(lines[2])
    /\ 2 + RowRun(lines, 3) < Len(lines) => ~match_tr(lines[3 + RowRun(lines, 3)]).ok

\* the table of a table input, read off its lines
RefTable(ls) ==
    create_element(<<"t", "a", "b", "l", "e">>, <<>>,
        <<create_element(<<"t", "h", "e", "a", "d">>, <<>>, <<RefRow(ls[1], <<"t", "h">>)>>)>>
        \o (IF RowRun(ls, 3) = 0 THEN <<>>
            ELSE <<create_element(<<"t", "b", "o", "d", "y">>, <<>>,
                       [k \in 1..RowRun(ls, 3) |-> RefRow(ls[k + 2], <<"t", "d">>)])>>))

IsLoneRowLine(ls, k) ==
    /\ match_tr(strip(ls[k])).ok
    /\ k = Len(ls) \/ ~IsSeparatorLine(ls[k + 1])
    /\ ~match_code(join(<<"\n">>, Drop(ls, k - 1))).ok

\* the input is made of plain text lines and row lines that start no table,
\* with at least one such row line
LoneRowInput ==
    /\ \A k \in 1..Len(lines) : IsPlainLine(lines, k) \/ IsLoneRowLine(lines, k)
    /\ \E k \in 1..Len(lines) : IsLoneRowLine(lines, k)

\* C12: a row line that is the last line or is not immediately followed by
\* a separator line produces no table, consumes exactly one line and is
\* handled as a plain text line: it joins the paragraph formed by the plain
\* lines directly before and after it.
C12_LoneRowIsParagraphText ==
    LoneRowInput =>
        /\ md_pc # "raised"
        /\ md_i = md_steps
        /\ \A k \in 1..Len(md_dom) : md_dom[k].name # <<"t", "a", "b", "l", "e">>
        /\ md_pc = "done" => MDResult.children[2].children = RefBlocks(lines, <<>>)

\* the part of C12 that the code keeps: no table, one line per iteration
C12_NoTableOneLine ==
    LoneRowInput =>
        /\ md_pc # "raised"
        /\ md_i = md_steps
        /\ \A k \in 1..Len(md_dom) : md_dom[k].name # <<"t", "a", "b", "l", "e">>

\* a title line: 'title: ' followed by text, in no fenced block
IsTitleLine(ls, k) ==
    /\ match_title(strip(ls[k])).ok
    /\ ~match_code(join(<<"\n">>, Drop(ls, k - 1))).ok

\* the input is made of header, blank, plain and title lines, with exactly
\* one title line
TitledInput ==
    /\ \A k \in 1..Len(lines) :
          \/ strip(lines[k]) = <<>>
          \/ IsHeaderLine(strip(lines[k]))
          \/ IsPlainLine(lines, k)
          \/ IsTitleLine(lines, k)
    /\ Cardinality({k \in 1..Len(lines) : IsTitleLine(lines, k)}) = 1

\* the text of the title line of a titled input
TitleText(ls) ==
    LET k == CHOOSE j \in 1..Len(ls) : IsTitleLine(ls, j)
    IN  Drop(strip(ls[k]), Len(TitlePrefix))

\* C13: for an input with a line 'title: <text>' parse returns a root whose
\* head holds one title element with a single Text child holding <text>;
\* for an input without such a line the returned root has an empty head.
C13_TitleSetsHead ==
    /\ TitledInput =>
          /\ md_pc # "raised"
          /\ md_pc = "done" =>
                MDResult.children[1].children =
                    <<create_element(<<"t", "i", "t", "l", "e">>, <<>>, <<create_text(TitleText(lines))>>)>>
    /\ (md_pc = "done" /\ \A k \in 1..Len(lines) : ~match_title(strip(lines[k])).ok) =>
          MDResult.children[1].children = <<>>

\* what the code does with a titled input: it never returns
C13_TitledNeverReturns ==
    TitledInput => md_pc # "done"

\* two consecutive blank lines somewhere in a simple input
TwoBlankLines ==
    /\ SimpleInput
    /\ \E k \in 1..(Len(lines) - 1) : lines[k] = <<>> /\ lines[k + 1] = <<>>

\* an empty br element
IsBr(node) ==
    node.type = "element" /\ node.name = <<"b", "r">> /\ node.children = <<>>

\* C14: whenever the input contains two consecutive blank lines, body's
\* children contain an empty br element.
C14_HardBreak ==
    (md_pc = "done" /\ TwoBlankLines) =>
        \E k \in 1..Len(MDResult.children[2].children) : IsBr(MDResult.children[2].children[k])

\* what the code does: no body ever holds a br
C14_NoBrEver ==
    \A k \in 1..Len(md_dom) : md_dom[k].name # <<"b", "r">>

\* a quote line: '> ' and text that no block pattern matches
IsQuoteLine(l) ==
    /\ match_blockquote(l).ok
    /\ quote_content(l) # <<>>
    /\ ~matches_any(quote_content(l))

\* the input is one run of quote lines
QuoteInput ==
    /\ lines # <<>>
    /\ \A k \in 1..Len(lines) : IsQuoteLine(lines[k])

\* len(v) of a list or of a dict
PyLen(v) == Cardinality(DOMAIN v)

\* the p that the marker-stripped lines of a run of quote lines make, the
\* lines joined by a space as handle_blockquote joins them
RefQuoteParagraph(ls) ==
    create_element(<<"p">>, <<>>,
        <<create_text(join(<<" ">>, [k \in 1..Len(ls) |-> quote_content(ls[k])]))>>)

\* C15: a run of '> '-marked lines produces one blockquote element whose
\* children are the sequence of block-level nodes obtained by parsing the
\* marker-stripped text ('> a' yields blockquote[p('a')]).
C15_BlockquoteChildren ==
    (QuoteInput /\ md_pc = "done") =>
        /\ Len(md_dom) = 1
        /\ md_dom[1].name = <<"b", "l", "o", "c", "k", "q", "u", "o", "t", "e">>
        /\ PyLen(md_dom[1].children) = 1
        /\ md_dom[1].children[1] = RefQuoteParagraph(lines)

\* what the code does with a run of quote lines: the children of the first
\* blockquote is the root element that the nested parse returned, whose body
\* holds the paragraph
C15_ChildrenIsNestedRoot ==
    (QuoteInput /\ md_steps >= 1) =>
        /\ md_pc # "raised"
        /\ md_dom[1].name = <<"b", "l", "o", "c", "k", "q", "u", "o", "t", "e">>
        /\ md_dom[1].children.name = <<"h", "t", "m", "l">>
        /\ md_dom[1].children.children[2].children = <<RefQuoteParagraph(lines)>>

\* the input is one fenced block: an opening fence with a language, content
\* lines without backticks, and a closing fence
FencedInput ==
    /\ Len(lines) >= 3
    /\ StartsWith(lines[1], Fence)
    /\ \A k \in 4..Len(lines[1]) : lines[1][k] \in Letters
    /\ lines[Len(lines)] = Fence
    /\ \A k \in 2..(Len(lines) - 1) : Backtick \notin Range(lines[k])

\* the pre of a fenced input: code with the language of the opening fence
\* and the content lines verbatim
RefPre(ls) ==
    create_element(<<"p", "r", "e">>, <<>>,
        <<create_element(<<"c", "o", "d", "e">>,
            <<<<<<"l", "a", "n", "g", "u", "a", "g", "e">>, Drop(ls[1], 3)>>>>,
            <<create_text(join(<<"\n">>, SubSeq(ls, 2, Len(ls) - 1)))>>)>>)

\* C16: when the text from the current line to the end of the input is a
\* fence with a language, content lines and a closing fence, body receives
\* exactly one pre holding one code with attribute language and a single
\* Text child with the characters between the fences verbatim, and no other
\* body node comes from those lines.
C16_FencedCode ==
    FencedInput =>
        /\ md_pc # "raised"
        /\ md_pc = "done" => md_dom = <<RefPre(lines)>>

\* the part of C16 that the code keeps: the first body node is the pre
C16_FirstNodeIsPre ==
    (FencedInput /\ md_steps >= 1) =>
        /\ md_steps = 1 => md_pc # "raised"
        /\ md_dom[1] = RefPre(lines)
        /\ md_i >= 1

\* C17: MDParser.parse never raises: for every input, including a lone
\* list marker, a bare '#', a title line, an unterminated table row and an
\* unterminated fence, it returns a tree.
C17_MDNeverRaises ==
    md_pc # "raised"

\* the inputs of one line that C17 names, and what parse does with them: the
\* lone markers raise, the others return
C17_NamedInputs ==
    /\ (lines \in {<<<<"-">>>>, <<<<"*">>>>} /\ md_steps >= 1) =>
          md_pc = "raised" /\ md_err = "AttributeError"
    /\ (lines = <<<<"t", "i", "t", "l", "e", ":", " ", "a">>>> /\ md_steps >= 1) =>
          md_pc = "raised" /\ md_err = "IndexError"
    /\ (lines \in {<<<<"#">>>>, <<<<"|", "a", "|">>>>, <<Fence>>}) =>
          md_pc # "raised" /\ md_steps <= 2
    /\ md_pc = "raised" => md_err \in {"AttributeError", "IndexError"}

C18_PaddedRowStalls ==
    (Len(lines) >= 2 /\ lines[1] = <<" ", "|", "e", "|">> /\ IsSeparatorLine(lines[2])) =>
        /\ md_pc = "loop"
        /\ md_i = 0
        /\ Len(md_dom) = md_steps
        /\ \A k \in 1..Len(md_dom) : md_dom[k] = create_element(<<"t", "a", "b", "l", "e">>, <<>>, <<>>)

\* the reference of find_symbol: the class at the least position of the
\* list whose html is the name, or whose verifier accepts it
RefFirstMatch(syms, name) ==
    LET hits == {k \in 1..Len(syms) :
                    IF syms[k].html.custom THEN verify(name) ELSE syms[k].html.tag = name}
    IN  IF hits = {} THEN "None"
        ELSE syms[CHOOSE k \in hits : \A j \in hits : k <= j].cls

\* C19: find_symbol(name, raise_errors) returns the earliest-registered
\* type whose html is the name or whose verifier accepts it, however many
\* later types match too; when none matches it raises if raise_errors is
\* true and returns None otherwise; and a registration appends to the end of
\* the list, leaving the earlier entries as they were.
C19_FirstMatch ==
    [][ /\ (symbols' = symbols /\ found' # NoCall) =>
              /\ found'.value = RefFirstMatch(symbols, found'.name)
              /\ found'.err = IF RefFirstMatch(symbols, found'.name) = "None" /\ found'.raise_errors
                              THEN "ValueError" ELSE ""
        /\ Len(symbols') > Len(symbols) =>
              /\ Len(symbols') = Len(symbols) + 1
              /\ SubSeq(symbols', 1, Len(symbols)) = symbols ]_vars

\* a call answered with the first of two registered types that both match
\* the name, the second being another class
C19_Witness ==
    /\ Len(symbols) >= 2
    /\ found # NoCall
    /\ symbol_matches(symbols[1], found.name)
    /\ symbol_matches(symbols[2], found.name)
    /\ symbols[2].cls # symbols[1].cls
    /\ found.value = symbols[1].cls

\* C20: find_symbol resolves a name to a type only when the name is
\* character for character the type's tag; a name that differs from every
\* registered tag only in letter case resolves to no type.
C20_CaseSensitive ==
    [][ (symbols' = symbols /\ found' # NoCall /\ found'.value # "None") =>
            \E k \in 1..Len(symbols) :
                symbols[k].cls = found'.value /\ symbols[k].html.tag = found'.name ]_vars

\* C20 as the code has it: a type whose html is a str is found under its
\* very tag only, and a type whose html is the verifier of code.py is found
\* under 'code' in any letter case.
C20_CaseSensitiveButCode ==
    [][ (symbols' = symbols /\ found' # NoCall /\ found'.value # "None") =>
            \E k \in 1..Len(symbols) :
                /\ symbols[k].cls = found'.value
                /\ IF symbols[k].html.custom
                   THEN lower(found'.name) = symbols[k].html.tag
                   ELSE symbols[k].html.tag = found'.name ]_vars

\* a call with 'Title' while the type of tag 'title' is registered, which
\* found no type
C20_Witness ==
    /\ \E k \in 1..Len(symbols) : symbols[k].cls = "Title"
    /\ found.name = <<"T", "i", "t", "l", "e">>
    /\ found.value = "None"

----------------------------------------------------------------------------
(* Properties of Symbol.parse and Symbol.from_html *)

\* every element name of the node resolves to a registered type
RECURSIVE AllRegistered(_)
AllRegistered(node) ==
    \/ node.type = "text"
    \/ /\ find_symbol(Registry, node.name, TRUE).err = ""
       /\ \A k \in 1..Len(node.children) : AllRegistered(node.children[k])

\* the 'key:value' pairs of a style value: the key is what stands before
\* the first ':' of a part, the value is all that follows it
RECURSIVE RefStyles(_, _)
RefStyles(d, parts) ==
    IF parts = <<>> THEN d
    ELSE IF ":" \in Range(Head(parts))
         THEN RefStyles(dict_set(d, split(Head(parts), ":")[1],
                                 join(<<":">>, Tail(split(Head(parts), ":")))),
                        Tail(parts))
         ELSE RefStyles(d, Tail(parts))

\* the symbol the claim describes for a node
RECURSIVE Conforms(_, _)
Conforms(node, sym) ==
    IF node.type = "text" THEN sym = Text(node.content)
    ELSE /\ sym.cls = find_symbol(Registry, node.name, TRUE).value
         /\ sym.styles = RefStyles(<<>>, split(dict_pop(node.attributes, StyleKey), ";"))
         /\ sym.classes = SelectSeq(split(dict_pop(node.attributes, ClassKey), " "),
                                    LAMBDA c : c # <<>>)
         /\ sym.props = SelectSeq(node.attributes, LAMBDA item : item[1] \notin {StyleKey, ClassKey})
         /\ Len(sym.children) = Len(node.children)
         /\ \A k \in 1..Len(node.children) : Conforms(node.children[k], sym.children[k])

ParsedElement ==
    /\ subject.kind = "node"
    /\ outcome.op = "parse"
    /\ subject.value.type = "element"
    /\ AllRegistered(subject.value)

\* C21: Symbol.parse on an element node whose names are all registered
\* returns an instance of the resolved type whose styles are the key:value
\* pairs of the style attribute, whose classes are the non-empty tokens of
\* the class attribute in order, whose props are all the other attributes,
\* and whose children are the parsed children, as many and in the same order.
C21_Parse ==
    ParsedElement => outcome.err = "" /\ Conforms(subject.value, outcome.value)

\* a node parse handles as claimed: no attribute is named as a parameter of
\* Symbol.__init__, no element is named "text", no style part has a second ':'
RECURSIVE Plain(_)
Plain(node) ==
    \/ node.type = "text"
    \/ /\ node.name # TextName
       /\ \A key \in InitParameters : ~dict_has(node.attributes, key)
       /\ \A part \in Range(split(dict_pop(node.attributes, StyleKey), ";")) :
             Len(split(part, ":")) <= 2
       /\ \A k \in 1..Len(node.children) : Plain(node.children[k])

\* C21, what does hold: on such nodes parse returns the symbol claimed
C21_ParsePlain ==
    ParsedElement /\ Plain(subject.value)
        => outcome.err = "" /\ Conforms(subject.value, outcome.value)

\* parse raises TypeError for an attribute named inner
C21_InnerRaises ==
    ParsedElement /\ dict_has(subject.value.attributes, InnerKey) /\ subject.value.name # TextName
        => outcome.err = "TypeError"

\* the Text nodes of a node are resolved as claimed, whatever the rest is
RECURSIVE TextsResolved(_, _)
TextsResolved(node, sym) ==
    IF node.type = "text" THEN sym = Text(node.content)
    ELSE /\ Len(sym.children) = Len(node.children)
         /\ \A k \in 1..Len(node.children) : TextsResolved(node.children[k], sym.children[k])

\* from_html has run on a tree parse handles as C21 claims
ResolvedPlain ==
    /\ outcome.op = "from_html"
    /\ \A k \in 1..Len(Result) : AllRegistered(Result[k]) /\ Plain(Result[k])

TopLevelText == \E k \in 1..Len(Result) : Result[k].type = "text"

\* C22: every Text node of the tree HTMLParser.parse returned, nested or at
\* the top level, is resolved to a Text holding its raw content, and
\* resolving it never fails.
C22_TextNodes ==
    ResolvedPlain
        => /\ outcome.err = ""
           /\ Len(outcome.value) = Len(Result)
           /\ \A k \in 1..Len(Result) : TextsResolved(Result[k], outcome.value[k])

\* C22, what does hold: the Text nodes below an element are resolved as claimed
C22_NestedTextNodes ==
    ResolvedPlain /\ ~TopLevelText
        => /\ outcome.err = ""
           /\ Len(outcome.value) = Len(Result)
           /\ \A k \in 1..Len(Result) : TextsResolved(Result[k], outcome.value[k])

\* a Text node at the top level makes from_html raise KeyError
C22_TopLevelTextRaises ==
    ResolvedPlain /\ TopLevelText => outcome.err = "KeyError"

----------------------------------------------------------------------------
(* Properties of the tree operations of Symbol *)

\* the symbols whose children list holds c
Owners(c) == {p \in Objects : c \in Range(sym_children[p])}

Owned ==
    \A c \in Objects :
        /\ Cardinality(Owners(c)) <= 1
        /\ sym_parent[c] # None => c \in Range(sym_children[sym_parent[c]])

\* C23: after any sequence of set_parent, change_parent, add_child and
\* remove_child calls on symbols that started parentless, every symbol is in
\* the children list of at most one symbol, and a symbol with a parent
\* reference is in the children list of that parent.
C23_SingleOwnership == outcome.op # "prepare" => Owned

\* C23, its particular case: c.change_parent(n) for a child c of o, in a
\* state of single ownership, ends with c off o's list, on n's list, and
\* with n as its parent
C23_ChangeParent ==
    [][outcome'.op = "change_parent" /\ Owned
         => \A c \in Objects :
              sym_parent'[c] # sym_parent[c] /\ sym_parent[c] # None
                => /\ c \notin Range(sym_children'[sym_parent[c]])
                   /\ c \in Range(sym_children'[sym_parent'[c]])]_vars

\* the number of occurrences of x in the list s
Count(s, x) == Cardinality({k \in 1..Len(s) : s[k] = x})

\* C23, what the code does: change_parent takes no symbol off any list and
\* puts none on: every children list holds the same symbols as before
C23_ChangeParentMovesNothing ==
    [][outcome'.op = "change_parent"
         => \A o \in Objects, c \in Objects :
              Count(sym_children'[o], c) = Count(sym_children[o], c)]_vars

\* the objects reached from the objects of S along at most n children links
RECURSIVE Below(_, _, _)
Below(ch, S, n) ==
    IF n = 0 THEN S
    ELSE Below(ch, S \cup UNION {Range(ch[o]) : o \in S}, n - 1)

Under(ch, root) == Below(ch, {root}, MaxObjects)

\* the objects under root form a tree: each but the root is once on the
\* lists of the objects under root
IsTree(ch, root) ==
    \A c \in Under(ch, root) \ {root} :
        Cardinality({<<n, k>> \in Under(ch, root) \X (1..MaxChildren) :
                        k <= Len(ch[n]) /\ ch[n][k] = c}) = 1

\* C24: root.prepare(parent) on the root of a tree sets the root's parent to
\* the argument and, for every node n of the tree and every child c of n,
\* sets c.parent to n and c.prepared to true; it changes no children list
\* and returns the root.
C24_Prepare ==
    [][outcome'.op = "prepare" /\ IsTree(sym_children, outcome'.self)
         => /\ sym_parent'[outcome'.self] = outcome'.arg
            /\ sym_prepared'[outcome'.self]
            /\ \A n \in Under(sym_children, outcome'.self) :
                  \A k \in 1..Len(sym_children[n]) :
                     /\ sym_parent'[sym_children[n][k]] = n
                     /\ sym_prepared'[sym_children[n][k]]
            /\ sym_children' = sym_children
            /\ outcome'.value = outcome'.self]_vars

\* prepare has run on a tree with a grandchild whose parent reference was
\* another symbol or none before
C24_Witness ==
    /\ outcome.op = "prepare"
    /\ IsTree(sym_children, outcome.self)
    /\ outcome.arg # None
    /\ \E n \in Range(sym_children[outcome.self]) :
          \E c \in Range(sym_children[n]) : sym_parent[c] = n /\ sym_prepared[c]

----------------------------------------------------------------------------
(* Properties of Symbol.to_html *)

EndsWith(s, p) == Len(s) >= Len(p) /\ SubSeq(s, Len(s) - Len(p) + 1, Len(s)) = p

\* a single self-closing tag '<tag ... />'
IsSelfClosing(text, tag) ==
    /\ StartsWith(text, <<"<">> \o tag)
    /\ EndsWith(text, <<" ", "/", ">">>)
    /\ Count(text, "<") = 1

RenderedElement ==
    /\ subject.kind = "symbol"
    /\ outcome.op = "to_html"
    /\ subject.value.cls # "Text"

\* what the children of the subject render to, one after the other
RenderedChildren == Flatten(Map(to_html_default, subject.value.children))

\* C25: an element of any registered type with no rendered children renders
\* as one self-closing tag '<tag ... />', never as '<tag></tag>', and an
\* element whose children render to something is never self-closing.
C25_SelfClosing ==
    RenderedElement
        => /\ subject.value.children = <<>>
                => IsSelfClosing(outcome.value, html_of(subject.value.cls).tag)
           /\ RenderedChildren # <<>>
                => ~IsSelfClosing(outcome.value, html_of(subject.value.cls).tag)

\* C25, what does hold: the elements rendered by Symbol.to_html itself
C25_DefaultSelfClosing ==
    RenderedElement /\ ~html_of(subject.value.cls).custom
        => /\ subject.value.children = <<>>
                => IsSelfClosing(outcome.value, html_of(subject.value.cls).tag)
           /\ RenderedChildren # <<>>
                => ~IsSelfClosing(outcome.value, html_of(subject.value.cls).tag)

\* the custom renderer of Code closes with '</code>' whatever the children
C25_CodeNeverSelfClosing ==
    RenderedElement /\ html_of(subject.value.cls).custom
        => EndsWith(outcome.value, <<"<", "/", "c", "o", "d", "e", ">">>)

RoundTripped ==
    /\ subject.kind = "symbol"
    /\ outcome.op = "from_html"

\* the symbols from_html returned, rendered one after the other
SecondRender == Flatten(Map(to_html_default, outcome.value))

\* C26: for a tree of default-rendered elements and text, rendering with
\* to_html, parsing the output with from_html and rendering again gives the
\* first render, character for character.
C26_RoundTrip == RoundTripped => outcome.err = "" /\ SecondRender = html

\* the tree of the claim, an element with a text child next to an element
\* child, comes back from from_html and renders differently
HiThereSymbol ==
    Symbol("Td", <<>>, <<>>,
           <<Text(<<"h", "i", " ">>), Symbol("Th", <<>>, <<>>, <<Text(<<"a">>)>>, <<>>)>>, <<>>)

C26_TextNextToElementDiffers ==
    RoundTripped /\ subject.value = HiThereSymbol => outcome.err = "" /\ SecondRender # html

\* C26, what does hold: an element with at most one child and at most one
\* style comes back as it was rendered
C26_OneChildRoundTrip ==
    /\ RoundTripped
    /\ subject.value.cls # "Text"
    /\ Len(subject.value.children) <= 1
    /\ Len(subject.value.styles) <= 1
    => outcome.err = "" /\ SecondRender = html

----------------------------------------------------------------------------
(* Properties of the Markdown and reStructuredText renders                *)

\* a table of a thead and a tbody, one text a cell
IsGrid(sym) ==
    /\ sym.cls = "Table"
    /\ Len(sym.children) = 2
    /\ sym.children[1].cls = "THead"
    /\ sym.children[2].cls = "TBody"
    /\ \A s \in 1..2 : \A r \in 1..Len(sym.children[s].children) :
         /\ sym.children[s].children[r].cls = "Tr"
         /\ \A cell \in Range(sym.children[s].children[r].children) :
              /\ cell.cls \in {"Td", "Th"}
              /\ Len(cell.children) = 1
              /\ cell.children[1].cls = "Text"

\* a table with one header row of at least one cell has been rendered
TableRendered ==
    /\ subject.kind = "markup"
    /\ IsGrid(subject.value)
    /\ Len(subject.value.children[1].children) = 1
    /\ subject.value.children[1].children[1].children # <<>>
    /\ outcome.op \in {"to_md", "to_rst"}
    /\ outcome.err = ""

\* the cells of the rows of the rendered table: the header row first
RowCells == Map(LAMBDA tr : Len(tr.children),
                subject.value.children[1].children \o subject.value.children[2].children)

HeaderCells == RowCells[1]

\* the lines of the render
RenderedLines == split(outcome.value, "\n")

\* the columns of a line: '|' or, on a border of the grid, '+' closes each
Columns(line) == Count(line, IF Head(line) = "+" THEN "+" ELSE "|") - 1

\* C27: every line of the Markdown render and of the RST render of a table
\* has exactly as many cells as the header row, whatever the number of cells
\* of the body rows.
C27_CellCount ==
    TableRendered => \A k \in 1..Len(RenderedLines) : Columns(RenderedLines[k]) = HeaderCells

\* a row without cells renders as a row of one empty cell
Shown(cells) == Max(cells, 1)

\* C27: the Markdown render gives every row the cells it has
C27_MdRowsAsTheyAre ==
    TableRendered /\ outcome.op = "to_md"
    => /\ Len(RenderedLines) = Len(RowCells) + 1
       /\ Columns(RenderedLines[1]) = HeaderCells
       /\ \A k \in 2..Len(RowCells) : Columns(RenderedLines[k + 1]) = Shown(RowCells[k])

\* C27: the RST render cuts the rows longer than the header row and leaves
\* the shorter ones short
C27_RstRowsCut ==
    TableRendered /\ outcome.op = "to_rst"
    => /\ Len(RenderedLines) = 2 * Len(RowCells) + 1
       /\ \A k \in 1..Len(RowCells) :
            /\ Columns(RenderedLines[2 * k]) = Min(Shown(RowCells[k]), HeaderCells)
            /\ Columns(RenderedLines[2 * k + 1]) = HeaderCells

\* C27: a table whose rows have the cells of the header row renders with
\* that many cells on every line
C27_EqualRows ==
    TableRendered /\ (\A k \in 1..Len(RowCells) : RowCells[k] = HeaderCells)
    => \A k \in 1..Len(RenderedLines) : Columns(RenderedLines[k]) = HeaderCells

\* a table of a thead and a tbody with one text a cell has been rendered to
\* RST
GridRendered ==
    /\ subject.kind = "markup"
    /\ IsGrid(subject.value)
    /\ outcome.op = "to_rst"

\* the rows of the rendered table, those of thead first
GridRows == subject.value.children[1].children \o subject.value.children[2].children

InHeader(r) == r <= Len(subject.value.children[1].children)

\* the text of cell k of row r
CellText(r, k) == GridRows[r].children[k].children[1].text

SameCells == \A r \in 1..Len(GridRows) : Len(GridRows[r].children) = Len(GridRows[1].children)

GridColumns == IF GridRows = <<>> THEN 0 ELSE Len(GridRows[1].children)

\* the longest text of column k
GridWidth(k) ==
    CHOOSE w \in 0..MaxLen + 2 :
        /\ \A r \in 1..Len(GridRows) : Len(CellText(r, k)) <= w
        /\ \E r \in 1..Len(GridRows) : Len(CellText(r, k)) = w

\* where column k starts on a line: one character for the bar or the joint,
\* then the width and a blank on each side
RECURSIVE Offset(_)
Offset(k) == IF k = 1 THEN 1 ELSE Offset(k - 1) + GridWidth(k - 1) + 3

ColumnAt(p) == CHOOSE k \in 1..GridColumns : Offset(k) < p /\ p < Offset(k + 1)

Joints == {Offset(k) : k \in 1..(GridColumns + 1)}

\* the border line made of c
IsBorder(line, c) ==
    /\ Len(line) = Offset(GridColumns + 1)
    /\ \A p \in 1..Len(line) : line[p] = IF p \in Joints THEN "+" ELSE c

\* the line of row r: each text after '| ', padded with blanks to the width
IsGridRow(line, r) ==
    /\ Len(line) = Offset(GridColumns + 1)
    /\ \A p \in 1..Len(line) :
         line[p] = IF p \in Joints THEN "|"
                   ELSE LET k == ColumnAt(p)
                            q == p - Offset(k) - 1
                        IN  IF 1 <= q /\ q <= Len(CellText(r, k)) THEN CellText(r, k)[q] ELSE " "

\* the layout of the grid
GridLayout ==
    /\ outcome.err = ""
    /\ Len(RenderedLines) = 2 * Len(GridRows) + 1
    /\ IsBorder(RenderedLines[1], "-")
    /\ \A r \in 1..Len(GridRows) :
         /\ IsGridRow(RenderedLines[2 * r], r)
         /\ IsBorder(RenderedLines[2 * r + 1], IF InHeader(r) THEN "=" ELSE "-")
    /\ \A k \in 1..Len(RenderedLines) : Len(RenderedLines[k]) = Len(RenderedLines[1])

\* for the example the widths are 1 and 2 and only the third line has '='
ExampleLayout ==
    subject.value = ExampleTable
    => /\ GridWidth(1) = 1 /\ GridWidth(2) = 2
       /\ {k \in 1..Len(RenderedLines) : "=" \in Range(RenderedLines[k])} = {3}

\* C28 as stated: the RST render of a table whose rows all have the same
\* number of cells is the grid: a top border of '-', a line and a border for
\* each row, the columns padded to their longest text, the lines of equal
\* length, '=' in the border after a row of thead and '-' after the others.
C28_Grid == GridRendered /\ SameCells => GridLayout /\ ExampleLayout

\* C28, amended: the same for a table with at least one row whose rows all
\* have the same number of cells, at least one.
C28_GridOfCells ==
    GridRendered /\ SameCells /\ GridColumns >= 1 => GridLayout /\ ExampleLayout

C28_Witness ==
    /\ GridRendered
    /\ subject.value = ExampleTable
    /\ RenderedLines[3] = <<"+", "=", "=", "=", "+", "=", "=", "=", "=", "+">>

\* C28: a table without rows renders to the empty string, and rows without
\* cells to lines longer than the borders
C28_NoColumns ==
    GridRendered /\ SameCells /\ GridColumns = 0
    => outcome.err = "" /\ outcome.value = IF GridRows = <<>> THEN <<>>
                                           ELSE join(<<"\n">>, <<<<"+", "+">>>> \o
                                                 Flatten([r \in 1..Len(GridRows) |->
                                                    <<<<"|", " ", " ", "|">>, <<"+", "+">>>>]))

\* an Input has been rendered
InputRendered ==
    /\ subject.kind = "markup"
    /\ subject.value.cls = "Input"
    /\ outcome.op \in {"to_md", "to_rst"}

IsCheckbox == get_prop(subject.value, TypeKey, <<>>) = Checkbox

\* the label: the texts of the children
Label == Flatten(Map(LAMBDA child : child.text, subject.value.children))

\* '[x]' when the element is checked and '[ ]' when not
Box == IF get_prop(subject.value, CheckedKey, <<>>) # <<>> THEN <<"[", "x", "]">>
       ELSE <<"[", " ", "]">>

\* C29: a checkbox with a label renders to '- [x] label' or '- [ ] label' in
\* Markdown and to '[x] label' or '[ ] label' in RST; an input of any other
\* type renders to its HTML in Markdown and to the empty string in RST.
C29_Checkbox ==
    InputRendered
    => /\ outcome.err = ""
       /\ outcome.value =
            IF IsCheckbox
            THEN (IF outcome.op = "to_md" THEN <<"-", " ">> ELSE <<>>) \o Box \o <<" ">> \o Label
            ELSE IF outcome.op = "to_md" THEN to_html_default(subject.value) ELSE <<>>

\* C29: the part on the other types holds
C29_OtherTypes ==
    InputRendered /\ ~IsCheckbox
    => /\ outcome.err = ""
       /\ outcome.value = IF outcome.op = "to_md" THEN to_html_default(subject.value) ELSE <<>>

\* C29: a checkbox raises AttributeError on to_md, and on to_rst when it has
\* children; without children to_rst gives the box and a blank
C29_CheckboxRaises ==
    InputRendered /\ IsCheckbox
    => IF outcome.op = "to_md" \/ subject.value.children # <<>>
       THEN outcome.err = "AttributeError"
       ELSE outcome.err = "" /\ outcome.value = Box \o <<" ">>

\* a Title has been rendered
TitleRendered ==
    /\ subject.kind = "markup"
    /\ subject.value.cls = "Title"
    /\ outcome.op \in {"to_md", "to_rst"}

OneText == Len(subject.value.children) = 1 /\ subject.value.children[1].cls = "Text"

\* the title in Markdown and in RST
RenderedTitle ==
    IF outcome.op = "to_md"
    THEN <<"t", "i", "t", "l", "e", ":", " ", "\"">> \o subject.value.children[1].text \o <<"\"">>
    ELSE <<":", "t", "i", "t", "l", "e", ":", " ">> \o subject.value.children[1].text

\* C30: a Title renders to its text when it has exactly one child and that is
\* a Text, and raises ValueError, and nothing else, for every other list of
\* children.
C30_Validation ==
    TitleRendered
    => IF OneText THEN outcome.err = "" /\ outcome.value = RenderedTitle
       ELSE outcome.err = "ValueError"

\* C30: the same for the titles with at least one child
C30_WithChildren ==
    TitleRendered /\ subject.value.children # <<>>
    => IF OneText THEN outcome.err = "" /\ outcome.value = RenderedTitle
       ELSE outcome.err = "ValueError"

\* C30: a Title without children raises IndexError
C30_NoChildren ==
    TitleRendered /\ subject.value.children = <<>> => outcome.err = "IndexError"

\* a code element has been rendered to Markdown
CodeRendered ==
    /\ subject.kind = "markup"
    /\ subject.value.cls = "Code"
    /\ outcome.op = "to_md"

\* the concatenated content of the children
CodeContent == Flatten(Map(LAMBDA child : child.text, subject.value.children))

CodeLanguage == get_prop(subject.value, LanguageKey, <<>>)

Fence3 == <<Backtick, Backtick, Backtick>>

\* C31: Code.to_md returns the text of the children between single backticks
\* when there is no language and no newline in the text, and otherwise the
\* fenced block of the language line, the text and the closing fence.
C31_CodeMarkdown ==
    CodeRendered
    => /\ outcome.err = ""
       /\ outcome.value =
            IF CodeLanguage = <<>> /\ "\n" \notin Range(CodeContent)
            THEN <<Backtick>> \o CodeContent \o <<Backtick>>
            ELSE Fence3 \o CodeLanguage \o <<"\n">> \o CodeContent \o <<"\n">> \o Fence3

\* C31: what stands between the delimiters is the list of the children as
\* str writes it, '[' to ']', and a text of several lines with no language
\* is written between single backticks all the same
C31_ListBetweenDelimiters ==
    CodeRendered
    => /\ outcome.err = ""
       /\ LET n == Len(outcome.value)
              k == Len(CodeLanguage)
          IN  IF CodeLanguage = <<>>
              THEN /\ outcome.value[1] = Backtick /\ outcome.value[2] = "["
                   /\ outcome.value[n - 1] = "]" /\ outcome.value[n] = Backtick
              ELSE /\ SubSeq(outcome.value, 1, k + 5) = Fence3 \o CodeLanguage \o <<"\n", "[">>
                   /\ SubSeq(outcome.value, n - 5, n) = <<"]", "\n">> \o Fence3 \o <<"\n">>

\* C31: the same children render to '<text>0</text>' each, whatever they hold
C31_TextNeverWritten ==
    CodeRendered /\ CodeLanguage = <<>>
    => outcome.value =
         <<Backtick, "[">>
         \o join(<<",", " ">>, [k \in 1..Len(subject.value.children) |->
                                  <<"<", "t", "e", "x", "t", ">", "0", "<", "/", "t", "e", "x", "t", ">">>])
         \o <<"]", Backtick>>

----------------------------------------------------------------------------
(* Properties of concurrent calls                                         *)

\* what from_html returns for a document when the call runs alone
Alone(document) ==
    LET name == SubSeq(document, 2, 3)
        text == SubSeq(document, 5, Len(document) - 5)
    IN  IF document = AttributeDocument
        THEN <<Symbol("Td", <<>>, <<>>, <<>>,
                      << <<<<"a">>, <<"b">>>>, <<<<"c">>, <<"d">>>>, <<<<"e">>, <<"f">>>> >>)>>
        ELSE <<Symbol(IF name = <<"t", "d">> THEN "Td" ELSE "Th", <<>>, <<>>, <<Text(text)>>, <<>>)>>

HasReturned(t) == threads.running \in Threads /\ threads.results[t].op = "from_html"

\* C32: under every interleaving of the steps of two calls of from_html on
\* independent inputs, each call returns the tree it returns when it runs
\* alone.
C32_Isolated ==
    \A t \in Threads :
        HasReturned(t)
        => threads.results[t].err = "" /\ threads.results[t].value = Alone(threads.inputs[t])

\* C32: the calls that run one after the other return what they return alone
C32_OneAfterTheOther ==
    \A t \in Threads :
        HasReturned(t) /\ threads.preemptions = 0
        => threads.results[t].err = "" /\ threads.results[t].value = Alone(threads.inputs[t])

----------------------------------------------------------------------------
(* Properties of the generic nodes                                        *)

\* the keys of a dict or the indices of a list, as text
Keys(v) == {ToString(k) : k \in DOMAIN v}

\* a Python list: indices 1 to its length
IsList(v) == Keys(v) = {ToString(k) : k \in 1..PyLen(v)}

\* a dict of exactly these keys
IsDictOf(v, keys) == Keys(v) = {ToString(k) : k \in keys}

\* a Python str: characters, and not the None a group without match is
IsStr(v) == IsList(v) /\ v # NoneStr

\* TEXT and ELEMENT of parse/typing.py
RECURSIVE IsNode(_)
IsNode(v) ==
    \/ /\ IsDictOf(v, {"type", "content", "name"})
       /\ v.type = "text"
       /\ v.name = TextName
       /\ IsStr(v.content)
    \/ /\ IsDictOf(v, {"type", "name", "attributes", "children"})
       /\ v.type = "element"
       /\ IsStr(v.name)
       /\ IsList(v.attributes)
       /\ IsList(v.children)
       /\ \A k \in 1..Len(v.children) : IsNode(v.children[k])

\* the same but for a text whose content is None (a header or a fenced block
\* without text) and a blockquote whose children is the root element of the
\* nested parse
RECURSIVE IsNodeButTwo(_)
IsNodeButTwo(v) ==
    \/ /\ IsDictOf(v, {"type", "content", "name"})
       /\ v.type = "text"
       /\ v.name = TextName
       /\ IsList(v.content)
    \/ /\ IsDictOf(v, {"type", "name", "attributes", "children"})
       /\ v.type = "element"
       /\ IsStr(v.name)
       /\ IsList(v.attributes)
       /\ IF v.name = <<"b", "l", "o", "c", "k", "q", "u", "o", "t", "e">>
          THEN IsNodeButTwo(v.children)
          ELSE IsList(v.children) /\ \A k \in 1..Len(v.children) : IsNodeButTwo(v.children[k])

\* C33: every node of the output of MDParser.parse (and of HTMLParser.parse)
\* is a text node of type, name and a string content, or an element node of
\* type, name, attributes and a list of children that are such nodes.
C33_NodeShape == md_pc = "done" => IsNode(MDResult)

\* C33: the part on HTMLParser.parse holds
C33_HtmlNodeShape == pc = "done" => \A k \in 1..Len(Result) : IsNode(Result[k])

\* C33: the nodes of MDParser.parse have the shape but for the content of a
\* header or fenced block without text and the children of a blockquote
C33_MdNodeShapeButTwo == md_pc = "done" => IsNodeButTwo(MDResult)

\* C33: the output has the shape unless a line starts a header, a fence or
\* a quote
C33_OnlyHeadersFencesQuotes ==
    md_pc = "done" /\ ~IsNode(MDResult)
    => \E k \in 1..Len(lines) : lstrip(lines[k]) # <<>> /\ Head(lstrip(lines[k])) \in {"#", ">", Backtick}

----------------------------------------------------------------------------
(* Properties of the assertions of the handlers                           *)

\* the names of the elements appended to the DOM so far
Appended == {md_dom[k].name : k \in 1..Len(md_dom)}

\* C34: the assertions `match is not None` of handle_h, handle_code and
\* handle_title never fail during MDParser.parse: no parse ends in an
\* AssertionError.
C34_AssertionsHold == md_err # "AssertionError"

\* C34: a header and a fenced block have gone through handle_h and
\* handle_code
C34_Witness == md_pc = "done" /\ <<"h", "1">> \in Appended /\ <<"p", "r", "e">> \in Appended

\* C34: handle_title has passed its assertion and raised on the group
C34_TitleWitness == md_pc = "raised" /\ md_err = "IndexError" /\ Dispatch(lines, md_i - 1) = "title"

----------------------------------------------------------------------------
(* Properties of the line accounting of MDParser.parse                     *)

\* the lines the for loop of handle_blockquote goes through before it breaks
RECURSIVE quote_lines(_)
quote_lines(text) ==
    IF text = <<>> THEN 0
    ELSE IF match_blockquote(Head(text)).ok \/ strip(Head(text)) = <<>> \/ ~matches_any(Head(text))
    THEN 1 + quote_lines(Tail(text))
    ELSE 0

\* the lines of a fenced block: up to the last line that holds a backtick
fence_lines(text) ==
    Len(text) - (CHOOSE k \in 0..Len(text) :
                    /\ \A j \in 1..k : \A c \in 1..Len(text[Len(text) + 1 - j]) : text[Len(text) + 1 - j][c] # Backtick
                    /\ k < Len(text) => \E c \in 1..Len(text[Len(text) - k]) : text[Len(text) - k][c] = Backtick)

\* the lines of a list: blank lines, item lines of the list's kind and
\* continuation lines, up to the first line of another block
RECURSIVE list_lines(_, _)
list_lines(kind, text) ==
    IF text = <<>> THEN 0
    ELSE IF strip(Head(text)) = <<>> \/ list_pattern(kind, Head(text)).ok \/ ~matches_any(Head(text))
    THEN 1 + list_lines(kind, Tail(text))
    ELSE 0

\* the lines of the block that starts at line i0 (0-based) and goes to the
\* handler of this branch
BlockLinesAt(branch, text, i0) ==
    CASE branch = "blockquote" -> quote_lines(Drop(text, i0))
      [] branch = "code" -> fence_lines(Drop(text, i0))
      [] branch = "list" -> list_lines(list_kind(text[i0 + 1]), Drop(text, i0))

\* an iteration of the loop of parse that takes this branch and raises nothing
Handled(branch) ==
    /\ md_pc = "loop" /\ md_pc' = "loop"
    /\ md_i < Len(lines)
    /\ md_steps' = md_steps + 1
    /\ Dispatch(lines, md_i) = branch

\* C35: after handle_blockquote, handle_code or handle_list returns, the
\* cursor of parse is at the first line that the handler did not consume: no
\* line of the block is parsed again and no line after it is skipped.
C35_LineAccounting ==
    [][\A branch \in {"blockquote", "code", "list"} :
          Handled(branch) => md_i' = md_i + BlockLinesAt(branch, lines, md_i)]_vars

\* C35: after handle_code the cursor is one line on, whatever the block
C35_CodeOneLineOn == [][Handled("code") => md_i' = md_i + 1]_vars

\* C35: after handle_blockquote the cursor is on by the number of paragraphs
\* and paragraph breaks of the quote
C35_QuoteByParagraphs ==
    [][Handled("blockquote")
       => md_i' = md_i + Len(blockquote_text(handle_blockquote_loop(
                                  [new_text |-> <<>>, current_line |-> <<>>], Drop(lines, md_i))))]_vars

\* an item line of a nested list
Nested(line) ==
    \/ match_ul(line).ok /\ match_ul(line).g1 # <<>>
    \/ match_ol(line).ok /\ match_ol(line).g1 # <<>>

\* C35: after handle_list the cursor is at the first line after the list
\* when no line of the input starts a nested list
C35_FlatListAccounted ==
    [][Handled("list") /\ (\A k \in 1..Len(lines) : ~Nested(lines[k]))
       => md_i' = md_i + BlockLinesAt("list", lines, md_i)]_vars

----------------------------------------------------------------------------
(* Properties of replace_child                                             *)

\* this step is self.replace_child(old, new) on a list that holds old
Replaces(self, old, new) ==
    /\ outcome'.op = "replace_child"
    /\ outcome'.self = self /\ outcome'.arg = old /\ outcome'.value = new
    /\ old \in Range(sym_children[self])

\* the list without the first old, and new over the element before the place
\* old had, the last one when old was first
Replaced(children, old, new) ==
    LET rest == list_remove(children, old)
        place == list_index(children, old)
    IN  [rest EXCEPT ![IF place = 0 THEN Len(rest) ELSE place] = new]

\* C36: replace_child(old, new) on a list that holds old takes the first old
\* out and writes new over the element before old's place, the last element
\* when old was first; it raises nothing, and afterwards new is in the list.
C36_ReplaceChild ==
    [][\A self \in Objects, old \in Objects, new \in Objects :
          Replaces(self, old, new)
          => /\ outcome'.err = ""
             /\ sym_children'[self] = Replaced(sym_children[self], old, new)
             /\ new \in Range(sym_children'[self])]_vars

\* C36: it is so on every list of more than one child
C36_ReplaceAmongMore ==
    [][\A self \in Objects, old \in Objects, new \in Objects :
          Replaces(self, old, new) /\ Len(sym_children[self]) > 1
          => /\ outcome'.err = ""
             /\ sym_children'[self] = Replaced(sym_children[self], old, new)
             /\ new \in Range(sym_children'[self])]_vars

\* C36: on the list of old alone it raises IndexError and leaves the list
\* empty
C36_OnlyChildRaises ==
    [][\A self \in Objects, old \in Objects, new \in Objects :
          Replaces(self, old, new) /\ sym_children[self] = <<old>>
          => outcome'.err = "IndexError" /\ sym_children'[self] = <<>>]_vars

----------------------------------------------------------------------------
(* Properties of the stack of open tags                                    *)

\* the elements made so far
Elements == {n \in 1..Len(nodes) : nodes[n].type = "element"}

\* the entries of node n in the top-level list and in every children list
RECURSIVE CountIn(_, _)
CountIn(S, n) ==
    IF S = {} THEN 0
    ELSE LET e == CHOOSE x \in S : TRUE IN Count(nodes[e].children, n) + CountIn(S \ {e}, n)

Entered(n) == Count(dom, n) + CountIn(Elements, n)

\* tag_stack is a chain rooted in the DOM
Chain ==
    /\ tag_stack # <<>> => tag_stack[1] \in Range(dom)
    /\ \A k \in 1..(Len(tag_stack) - 1) : tag_stack[k + 1] \in Range(nodes[tag_stack[k]].children)

\* every node is entered once, the element whose tag is being read aside,
\* which is entered once or not yet
EnteredOnce ==
    \A n \in 1..Len(nodes) : Entered(n) = 1 \/ (Entered(n) = 0 /\ n = current_tag /\ state # "TEXT")

IsPrefix(s, t) == Len(s) <= Len(t) /\ SubSeq(t, 1, Len(s)) = s

\* the lists only grow at their end
Grows ==
    /\ IsPrefix(dom, dom')
    /\ Len(nodes) <= Len(nodes')
    /\ \A n \in Elements : IsPrefix(nodes[n].children, nodes'[n].children)

\* C37: after every character tag_stack is a chain rooted in the DOM (its
\* first element is in the top-level list, each next one is a child of the
\* one before); every node stands in exactly one list exactly once; and the
\* lists only grow by appending: no attached node is removed or moved.
C37_OpenTagStack == [](Chain /\ EnteredOnce) /\ [][Grows]_vars

\* C37: two elements are open and the inner one has a child
C37_Witness ==
    /\ pc = "loop"
    /\ Len(tag_stack) >= 2
    /\ nodes[Last(tag_stack)].children # <<>>

----------------------------------------------------------------------------
(* Properties of the state COMMENT_OR_DOCTYPE                              *)

\* C38: once '<!' has been read the parser stays in COMMENT_OR_DOCTYPE for
\* the rest of the input: the DOM and tag_stack never change again, the
\* end of the input included, where nothing is flushed.
C38_Absorbing ==
    [][/\ InLoop("TAG_START") /\ char = "!" => state' = "COMMENT_OR_DOCTYPE"
       /\ state = "COMMENT_OR_DOCTYPE"
          => /\ state' = "COMMENT_OR_DOCTYPE"
             /\ dom' = dom /\ tag_stack' = tag_stack /\ nodes' = nodes
             /\ pc' # "raised"]_vars

\* C38: parse has returned from COMMENT_OR_DOCTYPE with what it had before
\* '<!', characters having followed the '<!'
C38_Witness ==
    /\ pc = "done"
    /\ state = "COMMENT_OR_DOCTYPE"
    /\ dom # <<>>
    /\ \E k \in 1..(Len(html) - 2) : html[k] = "<" /\ html[k + 1] = "!"

----------------------------------------------------------------------------
(* Properties of the argument of Symbol.parse                              *)

\* an element of the tree has a "style" or a "class" attribute
RECURSIVE Decorated(_)
Decorated(node) ==
    /\ node.type = "element"
    /\ \/ dict_has(node.attributes, StyleKey)
       \/ dict_has(node.attributes, ClassKey)
       \/ \E k \in 1..Len(node.children) : Decorated(node.children[k])

\* C39: after Symbol.parse(node) the tree rooted at node is what it was
\* before the call, and a second parse of the same node gives what the first
\* gave.
C39_InputUnchanged ==
    /\ outcome.op = "parse" => outcome.text = subject.value
    /\ outcome.op = "parse again" => outcome.value = outcome.first.value /\ outcome.err = outcome.first.err

\* C39: it is so for a tree without "style" and "class" attributes
C39_UnchangedWhenPlain ==
    subject.kind = "node" /\ ~Decorated(subject.value)
    => /\ outcome.op = "parse" => outcome.text = subject.value
       /\ outcome.op = "parse again" => outcome.value = outcome.first.value /\ outcome.err = outcome.first.err

\* C39: the node parse was called on has neither attribute afterwards, and
\* the symbol of the second parse has no styles and no classes
C39_StyleAndClassPopped ==
    /\ outcome.op = "parse" /\ subject.value.type = "element"
       => ~dict_has(outcome.text.attributes, StyleKey) /\ ~dict_has(outcome.text.attributes, ClassKey)
    /\ outcome.op = "parse again" /\ outcome.err = ""
       => outcome.value.styles = <<>> /\ outcome.value.classes = <<>>

----------------------------------------------------------------------------
(* Properties of Symbol.copy                                               *)

\* the styles of symbol t, as a mapping
StylesOf(ds, t) == Range(ds.store[ds.styles[t]])

\* the styles the caller gave: none when the argument is left out
GivenStyles(given) ==
    CASE given.kind = "default" -> <<>>
      [] given.kind = "dict" -> given.value
      [] given.kind = "styles of" -> dicts.store[dicts.styles[given.symbol]]

\* the new symbol has the given styles overridden by those of self
CopyHasStyles ==
    StylesOf(dicts', outcome'.value)
        = Range(dict_update(GivenStyles(outcome'.arg), dicts.store[dicts.styles[outcome'.self]]))

\* the styles of the symbols there were are what they were
OthersKeepStyles == \A t \in 1..Len(dicts.styles) : StylesOf(dicts', t) = StylesOf(dicts, t)

\* C40: s.copy(styles) returns a new symbol whose styles are the given styles
\* overridden by s.styles, and the call, with or without arguments, changes
\* the styles of no other symbol: after c1 = a.copy() and c2 = b.copy(),
\* c1.styles is a.styles and c2.styles is b.styles.
C40_CopyIsolation == [][outcome'.op = "copy" => CopyHasStyles /\ OthersKeepStyles]_vars

\* C40: it is so when the caller passes a dict that no symbol has
C40_CopyWithOwnDict ==
    [][outcome'.op = "copy" /\ outcome'.arg.kind = "dict" => CopyHasStyles /\ OthersKeepStyles]_vars

\* C40: and for a copy without arguments as long as no symbol made by a copy
\* without arguments has styles
C40_CopyWhileDefaultEmpty ==
    [][/\ outcome'.op = "copy" /\ outcome'.arg.kind = "default"
       /\ dicts.store[DefaultOfCopy] = <<>>
       /\ \A t \in 1..Len(dicts.styles) :
             dicts.styles[t] = DefaultOfCopy => dicts.store[dicts.styles[outcome'.self]] = <<>>
       => CopyHasStyles /\ OthersKeepStyles]_vars

\* C40: the styles of a copy without arguments are those of every such copy
\* made before, overridden by those of self
C40_DefaultAccumulates ==
    [][outcome'.op = "copy" /\ outcome'.arg.kind = "default"
       => /\ StylesOf(dicts', outcome'.value)
               = Range(dict_update(dicts.store[DefaultOfCopy], dicts.store[dicts.styles[outcome'.self]]))
          /\ \A t \in 1..Len(dicts.styles) :
                dicts.styles[t] = DefaultOfCopy => StylesOf(dicts', t) = StylesOf(dicts', outcome'.value)]_vars

====
